---- MODULE Spec2Model ----
(***************************************************************************)
(* A model of the emulation core in src/main.c: the CPU step, the          *)
(* interrupt controller, the DMA / LCD / timer / sound advance functions    *)
(* and the driver loop run_emulator_until_event.                            *)
(*                                                                          *)
(* The emulator aggregate (struct Emulator) is the record built by Emu     *)
(* from the state variables; the C functions that take `struct Emulator*`  *)
(* are operators from such a record to the record after the call.          *)
(* The cartridge is a 32 KiB ROM without controller and without external   *)
(* RAM (NO_MBC, NO_RAM in init_memory_map).                                 *)
(***************************************************************************)
EXTENDS Integers, Sequences, FiniteSets, TLC

(***************************************************************************)
(* Bounds of the exploration (not program constants).                      *)
(***************************************************************************)
\* master cycles explored beyond the initial state by the driver
MaxCycles == 48
\* requested_samples handed to run_emulator_until_event by the caller
RequestedSamples == 16
\* an LCD advance takes 4*k master cycles, k in 1..MaxChunk
MaxChunk == 6
\* frames the PPU-only specification runs through
MaxFrames == 2
\* chunks charged to the PPU while the display is switched off
MaxOffChunks == 4
\* master cycles the timer-only specification runs through
MaxTimerCycles == 160
\* master cycles the DMA specification runs through
MaxDmaCycles == 672
\* CPU writes made in a run of the DMA specification
MaxDmaWrites == 1
\* register writes of one run of the sound register program
MaxApuWrites == 2
\* steps of the frame sequencer a run of the sequencer specification sees
MaxSeqSteps == 9
\* master cycles the wave channel specification runs through
MaxWaveCycles == 208
\* NR34 triggers made in a run of the wave channel specification
MaxWaveTriggers == 1
\* CPU writes made in a run of the cartridge specification
MaxCartWrites == 4
\* master cycles SpecRender lets pass: three lines are rendered
MaxRenderCycles == 1000
\* CPU writes to BGP that SpecRender makes
MaxRenderWrites == 1
\* instructions SpecProg lets the CPU step through
MaxProgSteps == 8
\* lines the PPU goes through in SpecStat
MaxStatLines == 14
\* master cycles charged in SpecTac
MaxTacCycles == 24
\* writes to DIV and TAC in SpecTac
MaxTacWrites == 2
\* master cycles charged in SpecObj
MaxObjCycles == 640
\* master cycles charged in SpecNoise
MaxNoiseCycles == 320
\* writes to NR43 in SpecNoise
MaxNoiseWrites == 1
\* register writes of one run of SpecChan
MaxChanWrites == 2
\* master cycles charged in SpecChan, around one step of the frame sequencer
MaxChanCycles == 16

(***************************************************************************)
(* Program constants.                                                      *)
(***************************************************************************)
FRAME_CYCLES == 70224
LINE_CYCLES == 456
HBLANK_CYCLES == 204
VBLANK_CYCLES == 4560
USING_OAM_CYCLES == 80
USING_OAM_VRAM_CYCLES == 172
DMA_CYCLES == 648
APU_CYCLES == 2
SCREEN_HEIGHT == 144
SCREEN_HEIGHT_WITH_VBLANK == 154
OBJ_Y_OFFSET == 16
OBJ_X_OFFSET == 8
SCREEN_WIDTH == 160
TILE_WIDTH == 8
TILE_HEIGHT == 8
TILE_MAP_WIDTH == 32
WINDOW_MAX_X == 166
WINDOW_X_OFFSET == 7
OBJ_COUNT == 40
OBJ_PER_LINE_COUNT == 10
TILE_MAP_9800_9BFF == 0
TILE_DATA_8000_8FFF == 1
OBJ_SIZE_8X8 == 0
OBJ_SIZE_8X16 == 1
COLOR_WHITE == 0
COLOR_LIGHT_GRAY == 1
COLOR_DARK_GRAY == 2
COLOR_BLACK == 3
OBJ_PRIORITY_BEHIND_BG == 1
\* the RGBA words, as their eight hexadecimal digits
RGBA_WHITE == "ffffffff"
RGBA_LIGHT_GRAY == "ffaaaaaa"
RGBA_DARK_GRAY == "ff555555"
RGBA_BLACK == "ff000000"
FRAME_SEQUENCER_COUNT == 8
FRAME_SEQUENCER_CYCLES == 8192
SOUND_BUFFER_EXTRA_CHANNEL_SAMPLES == 256
INVALID_READ_BYTE == 255
ROM_BANK_SHIFT == 14
CARTRIDGE_TYPE_ADDR == 327
ROM_SIZE_ADDR == 328
RAM_SIZE_ADDR == 329
HEADER_CHECKSUM_ADDR == 333
HEADER_CHECKSUM_RANGE_START == 308
HEADER_CHECKSUM_RANGE_END == 332
MINIMUM_ROM_SIZE == 32768
EXTERNAL_RAM_BANK_SHIFT == 13
MBC_RAM_ENABLED_MASK == 15
MBC_RAM_ENABLED_VALUE == 10
MBC1_ROM_BANK_LO_SELECT_MASK == 31
MBC1_BANK_HI_SELECT_MASK == 3
MBC1_BANK_HI_SHIFT == 5
MBC2_RAM_SIZE == 512
MBC2_RAM_ADDR_MASK == 511
MBC2_RAM_VALUE_MASK == 15
MBC2_ADDR_SELECT_BIT_MASK == 256
MBC2_ROM_BANK_SELECT_MASK == 15
MBC3_ROM_BANK_SELECT_MASK == 127
MBC3_RAM_BANK_SELECT_MASK == 7
BANK_MODE_ROM == 0
ROM_SIZE_COUNT == 85
OAM_START_ADDR == 65024
OAM_END_ADDR == 65183
UNUSED_END_ADDR == 65279
IO_START_ADDR == 65280
APU_START_ADDR == 65296
WAVE_RAM_START_ADDR == 65328
WAVE_RAM_END_ADDR == 65343
IO_END_ADDR == 65407
HIGH_RAM_START_ADDR == 65408
HIGH_RAM_END_ADDR == 65534
OAM_TRANSFER_SIZE == OAM_END_ADDR - OAM_START_ADDR + 1

IO_JOYP_ADDR == 0
IO_SB_ADDR == 1
IO_SC_ADDR == 2
IO_DIV_ADDR == 4
IO_TIMA_ADDR == 5
IO_TMA_ADDR == 6
IO_TAC_ADDR == 7
IO_IF_ADDR == 15
IO_LCDC_ADDR == 64
IO_STAT_ADDR == 65
IO_SCY_ADDR == 66
IO_SCX_ADDR == 67
IO_LY_ADDR == 68
IO_LYC_ADDR == 69
IO_DMA_ADDR == 70
IO_BGP_ADDR == 71
IO_OBP0_ADDR == 72
IO_OBP1_ADDR == 73
IO_WY_ADDR == 74
IO_WX_ADDR == 75
IO_IE_ADDR == 255

\* FOREACH_APU_REG: addresses relative to APU_START_ADDR
APU_NR10_ADDR == 0
APU_NR11_ADDR == 1
APU_NR12_ADDR == 2
APU_NR13_ADDR == 3
APU_NR14_ADDR == 4
APU_NR21_ADDR == 6
APU_NR22_ADDR == 7
APU_NR23_ADDR == 8
APU_NR24_ADDR == 9
APU_NR30_ADDR == 10
APU_NR31_ADDR == 11
APU_NR32_ADDR == 12
APU_NR33_ADDR == 13
APU_NR34_ADDR == 14
APU_NR41_ADDR == 16
APU_NR42_ADDR == 17
APU_NR43_ADDR == 18
APU_NR44_ADDR == 19
APU_NR50_ADDR == 20
APU_NR51_ADDR == 21
APU_NR52_ADDR == 22
\* the enumerator that follows APU_NR52_ADDR in enum APUReg
APU_REG_COUNT == 23

WAVE_RAM_SIZE == 16
NRX1_MAX_LENGTH == 64
NR31_MAX_LENGTH == 256
SWEEP_MAX_PERIOD == 8
SOUND_MAX_FREQUENCY == 2047
ENVELOPE_MAX_PERIOD == 8
WAVE_SAMPLE_TRIGGER_OFFSET_CYCLES == 2
FRAME_SEQUENCER_UPDATE_ENVELOPE_FRAME == 7
NOISE_DIVISOR_COUNT == 8
CHANNEL1 == 0
CHANNEL2 == 1
CHANNEL3 == 2
CHANNEL4 == 3
CHANNEL_COUNT == 4
SOUND1 == 0
SOUND2 == 1
SOUND3 == 2
SOUND4 == 3
VIN == 4
SOUND_COUNT == 5
SWEEP_DIRECTION_ADDITION == 0
SWEEP_DIRECTION_SUBTRACTION == 1
ENVELOPE_ATTENUATE == 0
ENVELOPE_MAX_VOLUME == 15
WAVE_SAMPLE_COUNT == 32
NOISE_MAX_CLOCK_SHIFT == 13
LFSR_WIDTH_7 == 1

JOYP_UNUSED == 192
JOYP_RESULT_MASK == 15
SC_UNUSED == 126
TAC_UNUSED == 248
STAT_UNUSED == 128
INTERRUPT_VBLANK_MASK == 1
INTERRUPT_LCD_STAT_MASK == 2
INTERRUPT_TIMER_MASK == 4
INTERRUPT_SERIAL_MASK == 8
INTERRUPT_JOYPAD_MASK == 16
INTERRUPT_UNUSED == 224

LCD_MODE_HBLANK == 0
LCD_MODE_VBLANK == 1
LCD_MODE_USING_OAM == 2
LCD_MODE_USING_OAM_VRAM == 3

EMULATOR_EVENT_NEW_FRAME == 1
EMULATOR_EVENT_SOUND_BUFFER_FULL == 2

\* size of the ROM image (the minimum, two banks of 16 KiB)
RomSize == 32768
\* PC after construction (init_emulator)
EntryPC == 256

(***************************************************************************)
(* Machine arithmetic.                                                     *)
(***************************************************************************)
U8(x) == (x + 65536) % 256
U16(x) == (x + 65536) % 65536
\* uint32_t: the counters of 32 bits (cycles, frame) stay far below 2^32 in
\* every run of the model, and 2^32 is beyond the integers of TLC
U32(x) == x

RECURSIVE BitAnd(_, _)
BitAnd(a, b) ==
  IF a = 0 \/ b = 0 THEN 0
  ELSE (a % 2) * (b % 2) + 2 * BitAnd(a \div 2, b \div 2)

BitOr(a, b) == a + b - BitAnd(a, b)
\* s[1] | s[2] | ... | s[Len(s)]
RECURSIVE BitOrAll(_)
BitOrAll(s) == IF s = << >> THEN 0 ELSE BitOr(Head(s), BitOrAll(Tail(s)))

BitXor(a, b) == a + b - 2 * BitAnd(a, b)
BitNot16(a) == 65535 - a
BitNot8(a) == 255 - a

B2N(b) == IF b THEN 1 ELSE 0

BITS_MASK(hi, lo) == 2 ^ (hi - lo + 1) - 1
\* ENCODE(X, HI, LO): the field value X placed at bits HI..LO
\* (x & m for a mask m = 2^n - 1 is x % (m + 1))
ENCODE(x, hi, lo) == (x % (BITS_MASK(hi, lo) + 1)) * 2 ^ lo
\* DECODE(X, HI, LO): bits HI..LO of the register value X
DECODE(x, hi, lo) == (x \div 2 ^ lo) % (BITS_MASK(hi, lo) + 1)

\* sparse byte arrays: ZERO_MEMORY makes every cell 0 until it is written
Get(m, a) == IF a \in DOMAIN m THEN m[a] ELSE 0
Put(m, a, v) == [x \in (DOMAIN m) \cup {a} |-> IF x = a THEN v ELSE m[x]]

\* the record r with the field IF added (IF is a reserved word of TLA+ and
\* cannot be written in a record constructor)
WithIF(r, v) == ("IF" :> v) @@ r

\* B(val), with val computed once and then named
Let(val, B(_)) == CHOOSE r \in { B(x) : x \in {val} } : TRUE

(***************************************************************************)
(* Opcode tables.                                                          *)
(***************************************************************************)
s_opcode_bytes ==
  << 1, 3, 1, 1, 1, 1, 2, 1, 3, 1, 1, 1, 1, 1, 2, 1,
     1, 3, 1, 1, 1, 1, 2, 1, 2, 1, 1, 1, 1, 1, 2, 1,
     2, 3, 1, 1, 1, 1, 2, 1, 2, 1, 1, 1, 1, 1, 2, 1,
     2, 3, 1, 1, 1, 1, 2, 1, 2, 1, 1, 1, 1, 1, 2, 1,
     1, 1, 1, 1, 1, 1, 1, 1, 1, 1, 1, 1, 1, 1, 1, 1,
     1, 1, 1, 1, 1, 1, 1, 1, 1, 1, 1, 1, 1, 1, 1, 1,
     1, 1, 1, 1, 1, 1, 1, 1, 1, 1, 1, 1, 1, 1, 1, 1,
     1, 1, 1, 1, 1, 1, 1, 1, 1, 1, 1, 1, 1, 1, 1, 1,
     1, 1, 1, 1, 1, 1, 1, 1, 1, 1, 1, 1, 1, 1, 1, 1,
     1, 1, 1, 1, 1, 1, 1, 1, 1, 1, 1, 1, 1, 1, 1, 1,
     1, 1, 1, 1, 1, 1, 1, 1, 1, 1, 1, 1, 1, 1, 1, 1,
     1, 1, 1, 1, 1, 1, 1, 1, 1, 1, 1, 1, 1, 1, 1, 1,
     1, 1, 3, 3, 3, 1, 2, 1, 1, 1, 3, 2, 3, 3, 2, 1,
     1, 1, 3, 0, 3, 1, 2, 1, 1, 1, 3, 0, 3, 0, 2, 1,
     2, 1, 1, 0, 0, 1, 2, 1, 2, 1, 3, 0, 0, 0, 2, 1,
     2, 1, 1, 1, 0, 1, 2, 1, 2, 1, 3, 1, 0, 0, 2, 1 >>

s_opcode_cycles ==
  <<  4, 12,  8,  8,  4,  4,  8,  4, 20,  8,  8,  8,  4,  4,  8,  4,
      0, 12,  8,  8,  4,  4,  8,  4, 12,  8,  8,  8,  4,  4,  8,  4,
      8, 12,  8,  8,  4,  4,  8,  4,  8,  8,  8,  8,  4,  4,  8,  4,
      8, 12,  8,  8,  8,  8, 12,  4,  8,  8,  8,  8,  4,  4,  8,  4,
      4,  4,  4,  4,  4,  4,  8,  4,  4,  4,  4,  4,  4,  4,  8,  4,
      4,  4,  4,  4,  4,  4,  8,  4,  4,  4,  4,  4,  4,  4,  8,  4,
      4,  4,  4,  4,  4,  4,  8,  4,  4,  4,  4,  4,  4,  4,  8,  4,
      8,  8,  8,  8,  8,  8,  0,  8,  4,  4,  4,  4,  4,  4,  8,  4,
      4,  4,  4,  4,  4,  4,  8,  4,  4,  4,  4,  4,  4,  4,  8,  4,
      4,  4,  4,  4,  4,  4,  8,  4,  4,  4,  4,  4,  4,  4,  8,  4,
      4,  4,  4,  4,  4,  4,  8,  4,  4,  4,  4,  4,  4,  4,  8,  4,
      4,  4,  4,  4,  4,  4,  8,  4,  4,  4,  4,  4,  4,  4,  8,  4,
      8, 12, 12, 16, 12, 16,  8, 16,  8, 16, 12,  0, 12, 24,  8, 16,
      8, 12, 12,  0, 12, 16,  8, 16,  8, 16, 12,  0, 12,  0,  8, 16,
     12, 12,  8,  0,  0, 16,  8, 16, 16,  4, 16,  0,  0,  0,  8, 16,
     12, 12,  8,  4,  0, 16,  8, 16, 12,  8, 16,  4,  0,  0,  8, 16 >>

\* faulty variant of s_tima_mask: every rate one step too slow
s_tima_mask_slow == << 512, 32, 128, 512 >>

\* s_tima_mask[clock_select]: the div_counter bit whose fall ticks TIMA
s_tima_mask == << 512, 8, 32, 128 >>

(***************************************************************************)
(* State.                                                                  *)
(***************************************************************************)
VARIABLES
  reg,         \* struct Registers: A, F (Z, N, H, C), HL, SP, PC
  interrupts,  \* struct Interrupts: IME, IE, IF, enable, halt, halt_DI
  timer,       \* struct Timer
  lcd,         \* struct LCD (registers and the mode state machine)
  dma,         \* struct DMA
  sound,       \* struct Sound: enabled, frame sequencer, buffer position
  joypad,      \* struct Joypad: joypad_select (no button is held)
  serial,      \* struct Serial
  palettes,    \* lcd.bgp and oam.obp[0..1], four colours each
  cycles,      \* e->cycles, the master cycle counter
  ram,         \* e->ram.data (work RAM), sparse
  hram,        \* e->hram, sparse
  oam,         \* e->oam.objs as stored by write_oam_no_mode_check, sparse
  vram,        \* e->vram.data, sparse
  rom,         \* e->rom_data: size, and in data the non-zero bytes
  memory_map,  \* struct MemoryMap: banks, RAM enable, MBC1, the handlers
  external_ram, \* struct ExternalRam: data (sparse), size, battery_type
  drv,         \* run_emulator_until_event and its caller: pc, locals, event
  obs          \* observation of the steps taken (history, not program state)

vars == << reg, interrupts, timer, lcd, dma, sound, joypad, serial, palettes,
           cycles, ram, hram, oam, vram, rom, memory_map, external_ram,
           drv, obs >>

(***************************************************************************)
(* The emulator aggregate.  `exited` records that UNREACHABLE() called     *)
(* exit(1).  The other extra fields are instrumentation of the current     *)
(* step: `chg` the cycles each advance function was called with, `log` the *)
(* order of the advance calls and of the instruction's memory accesses,    *)
(* `op` the opcode fetched, `mid` and `midchg` the CPU and `chg` between   *)
(* execute_instruction and handle_interrupts.                              *)
(***************************************************************************)
NoCharge == [dma |-> 0, lcd |-> 0, timer |-> 0, apu |-> 0]

Emu ==
  [reg |-> reg, interrupts |-> interrupts, timer |-> timer, lcd |-> lcd,
   dma |-> dma, sound |-> sound, joypad |-> joypad, serial |-> serial,
   palettes |-> palettes, cycles |-> cycles, ram |-> ram, hram |-> hram,
   oam |-> oam, vram |-> vram, rom |-> rom,
   memory_map |-> memory_map, external_ram |-> external_ram,
   frame_buffer |-> << >>,
   exited |-> FALSE, chg |-> NoCharge, log |-> << >>,
   op |-> 0, mid |-> << >>, midchg |-> NoCharge]

\* instrumentation: an advance function was called with n cycles
Note(e, unit, n) ==
  [e EXCEPT !.chg[unit] = @ + n, !.log = Append(@, unit)]

\* instrumentation: the instruction accessed memory
Access(e, kind) == [e EXCEPT !.log = Append(@, kind)]

(***************************************************************************)
(* Address decoding.                                                       *)
(***************************************************************************)
map_address(addr) ==
  LET hi == addr \div 4096 IN
  CASE hi \in 0..3 -> [type |-> "ROM", addr |-> addr % 16384]
    [] hi \in 4..7 -> [type |-> "ROM_BANK_SWITCH", addr |-> addr % 16384]
    [] hi \in 8..9 -> [type |-> "VRAM", addr |-> addr % 8192]
    [] hi \in 10..11 -> [type |-> "EXTERNAL_RAM", addr |-> addr % 8192]
    [] hi \in {12, 14} -> [type |-> "WORK_RAM", addr |-> addr % 4096]
    [] hi = 13 -> [type |-> "WORK_RAM_BANK_SWITCH", addr |-> addr % 4096]
    [] OTHER ->
         IF addr < OAM_START_ADDR
           THEN [type |-> "WORK_RAM_BANK_SWITCH", addr |-> addr % 4096]
         ELSE IF addr <= OAM_END_ADDR
           THEN [type |-> "OAM", addr |-> addr - OAM_START_ADDR]
         ELSE IF addr <= UNUSED_END_ADDR
           THEN [type |-> "UNUSED", addr |-> addr]
         ELSE IF addr < APU_START_ADDR
           THEN [type |-> "IO", addr |-> addr - IO_START_ADDR]
         ELSE IF addr < WAVE_RAM_START_ADDR
           THEN [type |-> "APU", addr |-> addr - APU_START_ADDR]
         ELSE IF addr <= WAVE_RAM_END_ADDR
           THEN [type |-> "WAVE_RAM", addr |-> addr - WAVE_RAM_START_ADDR]
         ELSE IF addr <= IO_END_ADDR
           THEN [type |-> "IO", addr |-> addr - IO_START_ADDR]
         ELSE IF addr <= HIGH_RAM_END_ADDR
           THEN [type |-> "HIGH_RAM", addr |-> addr - HIGH_RAM_START_ADDR]
         ELSE [type |-> "IO", addr |-> addr - IO_START_ADDR]

(***************************************************************************)
(* Reads.                                                                  *)
(***************************************************************************)
read_vram(e, addr) ==
  IF e.lcd.stat.mode = LCD_MODE_USING_OAM_VRAM
    THEN INVALID_READ_BYTE
    ELSE Get(e.vram, addr)

is_using_oam(e) ==
  \/ e.lcd.stat.mode = LCD_MODE_USING_OAM
  \/ e.lcd.stat.mode = LCD_MODE_USING_OAM_VRAM

read_oam(e, addr) ==
  IF is_using_oam(e) THEN INVALID_READ_BYTE
  ELSE CASE addr % 4 = 0 -> U8(Get(e.oam, addr) + OBJ_Y_OFFSET)
         [] addr % 4 = 1 -> U8(Get(e.oam, addr) + OBJ_X_OFFSET)
         [] OTHER -> Get(e.oam, addr)

\* READ_REG of the four colours of a palette
read_palette(pal) ==
  BitOr(BitOr(ENCODE(pal[4], 7, 6), ENCODE(pal[3], 5, 4)),
        BitOr(ENCODE(pal[2], 3, 2), ENCODE(pal[1], 1, 0)))

read_io(e, addr) ==
  CASE addr = IO_JOYP_ADDR ->
         \* no button is held: every READ_REG of a button yields 0
         LET result == 0 IN
         BitOr(BitOr(JOYP_UNUSED, ENCODE(e.joypad.joypad_select, 5, 4)),
               BitAnd(BitNot8(result), JOYP_RESULT_MASK))
    [] addr = IO_SB_ADDR -> 0
    [] addr = IO_SC_ADDR ->
         BitOr(BitOr(SC_UNUSED, ENCODE(e.serial.transfer_start, 7, 7)),
               ENCODE(e.serial.shift_clock, 0, 0))
    [] addr = IO_DIV_ADDR -> e.timer.div_counter \div 256
    [] addr = IO_TIMA_ADDR -> e.timer.TIMA
    [] addr = IO_TMA_ADDR -> e.timer.TMA
    [] addr = IO_TAC_ADDR ->
         BitOr(BitOr(TAC_UNUSED, ENCODE(B2N(e.timer.on), 2, 2)),
               ENCODE(e.timer.clock_select, 1, 0))
    [] addr = IO_IF_ADDR -> BitOr(INTERRUPT_UNUSED, e.interrupts.IF)
    [] addr = IO_LCDC_ADDR ->
         ENCODE(B2N(e.lcd.lcdc.display), 7, 7)
         + ENCODE(e.lcd.lcdc.window_tile_map_select, 6, 6)
         + ENCODE(e.lcd.lcdc.window_display, 5, 5)
         + ENCODE(e.lcd.lcdc.bg_tile_data_select, 4, 4)
         + ENCODE(e.lcd.lcdc.bg_tile_map_select, 3, 3)
         + ENCODE(e.lcd.lcdc.obj_size, 2, 2)
         + ENCODE(e.lcd.lcdc.obj_display, 1, 1)
         + ENCODE(e.lcd.lcdc.bg_display, 0, 0)
    [] addr = IO_STAT_ADDR ->
         STAT_UNUSED
         + ENCODE(B2N(e.lcd.stat.y_compare_intr), 6, 6)
         + ENCODE(B2N(e.lcd.stat.using_oam_intr), 5, 5)
         + ENCODE(B2N(e.lcd.stat.vblank_intr), 4, 4)
         + ENCODE(B2N(e.lcd.stat.hblank_intr), 3, 3)
         + ENCODE(B2N(e.lcd.LY = e.lcd.LYC), 2, 2)
         + ENCODE(e.lcd.stat.mode, 1, 0)
    [] addr = IO_SCY_ADDR -> e.lcd.SCY
    [] addr = IO_SCX_ADDR -> e.lcd.SCX
    [] addr = IO_LY_ADDR -> e.lcd.LY
    [] addr = IO_LYC_ADDR -> e.lcd.LYC
    [] addr = IO_DMA_ADDR -> INVALID_READ_BYTE
    [] addr = IO_BGP_ADDR -> read_palette(e.palettes.bgp)
    [] addr = IO_OBP0_ADDR -> read_palette(e.palettes.obp0)
    [] addr = IO_OBP1_ADDR -> read_palette(e.palettes.obp1)
    [] addr = IO_WY_ADDR -> e.lcd.WY
    [] addr = IO_WX_ADDR -> e.lcd.WX
    [] addr = IO_IE_ADDR -> e.interrupts.IE
    [] OTHER -> INVALID_READ_BYTE

\* faulty variant of is_dma_access_ok: high RAM is blocked like the rest
is_dma_access_ok_no_hram(e, pair) ==
  \/ ~e.dma.active
  \/ (e.dma.source.type = "VRAM" /\ pair.type # "VRAM" /\ pair.type # "OAM")

is_dma_access_ok(e, pair) ==
  \/ ~e.dma.active
  \/ pair.type = "HIGH_RAM"
  \/ (e.dma.source.type = "VRAM" /\ pair.type # "VRAM" /\ pair.type # "OAM")

\* read_external_ram of a cartridge without RAM
dummy_read_external_ram(e, addr) == 0

gb_read_work_ram_bank_switch(e, addr) == Get(e.ram, 4096 + addr)

(***************************************************************************)
(* The sound registers.  Of struct Sound the model keeps every field that  *)
(* write_apu, read_apu or the wave RAM accessors read or write; the fields *)
(* of sample generation alone (duty position, sample, per-channel cycle    *)
(* counters) are left out.  Channels are indexed CHANNEL1..CHANNEL4, the   *)
(* output selectors SOUND1..VIN, wave.sample 1..2.                         *)
(***************************************************************************)
Chan(e, c) == e.sound.channel[c]

\* faulty variant of write_nrx1_reg: the duty is written whether or not the
\* sound hardware has power
write_nrx1_reg_duty_always(e, c, value) ==
  [e EXCEPT !.sound.channel[c].square_wave.duty = DECODE(value, 7, 6),
            !.sound.channel[c].length =
              NRX1_MAX_LENGTH - DECODE(value, 5, 0)]

write_nrx1_reg(e, c, value) ==
  LET e1 == IF e.sound.enabled
              THEN [e EXCEPT !.sound.channel[c].square_wave.duty =
                               DECODE(value, 7, 6)]
              ELSE e
  IN [e1 EXCEPT !.sound.channel[c].length =
                  NRX1_MAX_LENGTH - DECODE(value, 5, 0)]

\* faulty variant of write_nrx2_reg: switching the DAC off leaves the
\* channel's status bit as it was
write_nrx2_reg_keeps_status(e, c, value) ==
  [e EXCEPT !.sound.channel[c].envelope.initial_volume = DECODE(value, 7, 4),
            !.sound.channel[c].dac_enabled = (DECODE(value, 7, 3) # 0),
            !.sound.channel[c].envelope.direction = DECODE(value, 3, 3),
            !.sound.channel[c].envelope.period = DECODE(value, 2, 0)]

write_nrx2_reg(e, c, value) ==
  LET dac_enabled == DECODE(value, 7, 3) # 0 IN
  [e EXCEPT !.sound.channel[c].envelope.initial_volume = DECODE(value, 7, 4),
            !.sound.channel[c].dac_enabled = dac_enabled,
            !.sound.channel[c].status = IF ~dac_enabled THEN FALSE ELSE @,
            !.sound.channel[c].envelope.direction = DECODE(value, 3, 3),
            !.sound.channel[c].envelope.period = DECODE(value, 2, 0)]

\* frequency &= ~0xff; frequency |= value
write_nrx3_reg(e, c, value) ==
  [e EXCEPT !.sound.channel[c].frequency = (@ \div 256) * 256 + value]

\* the emulator after the write, and whether the channel was triggered
write_nrx4_reg(e, c, value, max_length) ==
  LET ch == Chan(e, c)
      trigger == DECODE(value, 7, 7) = 1
      was_length_enabled == ch.length_enabled
      length_enabled == DECODE(value, 6, 6) = 1
      frequency == BitOr(BitAnd(ch.frequency, 255),
                         DECODE(value, 2, 0) * 256)
      next_frame_is_length == BitAnd(e.sound.frame, 1) = 1
      extra == /\ ~was_length_enabled
               /\ length_enabled
               /\ ~next_frame_is_length
               /\ ch.length > 0
      length1 == IF extra THEN ch.length - 1 ELSE ch.length
      status1 == IF extra /\ ~trigger /\ length1 = 0 THEN FALSE
                 ELSE ch.status
      length2 == IF trigger /\ length1 = 0
                   THEN IF length_enabled /\ ~next_frame_is_length
                          THEN max_length - 1 ELSE max_length
                   ELSE length1
      status2 == IF trigger /\ ch.dac_enabled THEN TRUE ELSE status1
  IN [e |-> [e EXCEPT !.sound.channel[c].length_enabled = length_enabled,
                      !.sound.channel[c].frequency = frequency,
                      !.sound.channel[c].length = length2,
                      !.sound.channel[c].status = status2],
      trigger |-> trigger]

trigger_nrx4_envelope(e, c) ==
  LET env == Chan(e, c).envelope
      reload == IF env.period # 0 THEN env.period ELSE ENVELOPE_MAX_PERIOD
  IN [e EXCEPT !.sound.channel[c].envelope.volume = env.initial_volume,
               !.sound.channel[c].envelope.timer =
                 IF e.sound.frame + 1 = FRAME_SEQUENCER_UPDATE_ENVELOPE_FRAME
                   THEN reload + 1 ELSE reload,
               !.sound.channel[c].envelope.automatic = (env.period # 0)]

\* the frequency computed, and the sweep with calculated_subtract noted
calculate_sweep_frequency(sweep) ==
  LET f == sweep.frequency IN
  IF sweep.direction = SWEEP_DIRECTION_ADDITION
    THEN [f |-> U16(f + f \div 2 ^ sweep.shift), sweep |-> sweep]
    ELSE [f |-> U16(f - f \div 2 ^ sweep.shift),
          sweep |-> [sweep EXCEPT !.calculated_subtract = TRUE]]

trigger_nr14_reg(e, c) ==
  LET s0 == e.sound.sweep
      s1 == [s0 EXCEPT !.enabled = (s0.period # 0 \/ s0.shift # 0),
                       !.frequency = Chan(e, c).frequency,
                       !.timer = IF s0.period # 0 THEN s0.period
                                 ELSE SWEEP_MAX_PERIOD,
                       !.calculated_subtract = FALSE]
      r == calculate_sweep_frequency(s1)
  IN IF s1.shift # 0
       THEN [e EXCEPT !.sound.sweep = r.sweep,
                      !.sound.channel[c].status =
                        IF r.f > SOUND_MAX_FREQUENCY THEN FALSE ELSE @]
       ELSE [e EXCEPT !.sound.sweep = s1]

\* the index in wave.sample of the sample read at this very cycle, or 0
\* (NULL) when there is none
is_concurrent_wave_ram_access(e, offset_cycles) ==
  LET sample == e.sound.wave.sample
      now == U32(e.cycles + offset_cycles)
  IN IF sample[1].time = now THEN 1
     ELSE IF sample[2].time = now THEN 2
     ELSE 0

\* memcpy(&wave->ram[0], &wave->ram[from], 4)
wave_ram_copy4(wram, from) ==
  Put(Put(Put(Put(wram, 0, Get(wram, from)), 1, Get(wram, from + 1)),
          2, Get(wram, from + 2)), 3, Get(wram, from + 3))

\* faulty variant of trigger_nr34_reg: a trigger while playing corrupts the
\* wave RAM whether or not a sample is being read at that moment
trigger_nr34_reg_any_time(e, c) ==
  LET wave == e.sound.wave
      wram == IF ~wave.playing THEN wave.ram
             ELSE IF wave.sample[1].position \div 8 = 0
               THEN Put(wave.ram, 0, wave.sample[1].byte)
             ELSE wave_ram_copy4(
                    wave.ram,
                    BitAnd(wave.sample[1].position \div 2, 12))
  IN [e EXCEPT !.sound.wave.position = 0,
               !.sound.wave.cycles = wave.period,
               !.sound.wave.ram = wram,
               !.sound.wave.playing = TRUE]

trigger_nr34_reg(e, c) ==
  LET wave == e.sound.wave
      i == is_concurrent_wave_ram_access(e, WAVE_SAMPLE_TRIGGER_OFFSET_CYCLES)
      wram == IF ~wave.playing \/ i = 0 THEN wave.ram
             ELSE IF wave.sample[i].position \div 8 = 0
               THEN Put(wave.ram, 0, wave.sample[i].byte)
             ELSE wave_ram_copy4(
                    wave.ram,
                    BitAnd(wave.sample[i].position \div 2, 12))
  IN [e EXCEPT !.sound.wave.position = 0,
               !.sound.wave.cycles = wave.period,
               !.sound.wave.ram = wram,
               !.sound.wave.playing = TRUE]

write_wave_period(e, c) ==
  [e EXCEPT !.sound.wave.period =
              ((SOUND_MAX_FREQUENCY + 1) - Chan(e, c).frequency) * 2]

write_square_wave_period(e, c) ==
  [e EXCEPT !.sound.channel[c].square_wave.period =
              ((SOUND_MAX_FREQUENCY + 1) - Chan(e, c).frequency) * 4]

s_divisors == << 8, 16, 32, 48, 64, 80, 96, 112 >>

write_noise_period(e, c) ==
  [e EXCEPT !.sound.noise.period =
              s_divisors[e.sound.noise.divisor + 1]
                * 2 ^ e.sound.noise.clock_shift]

trigger_nr44_reg(e, c) == [e EXCEPT !.sound.noise.lfsr = 32767]

RECURSIVE write_apu(_, _, _)
RECURSIVE write_apu_clear(_, _)

\* the loop of the power-down: write_apu(e, i, 0) for every i below
\* APU_REG_COUNT but APU_NR52_ADDR
write_apu_clear(e, i) ==
  IF i >= APU_REG_COUNT THEN e
  ELSE IF i = APU_NR52_ADDR THEN write_apu_clear(e, i + 1)
  ELSE Let(write_apu(e, i, 0), LAMBDA e1 : write_apu_clear(e1, i + 1))

write_apu(e, addr, value) ==
  IF /\ ~e.sound.enabled
     /\ addr \notin {APU_NR11_ADDR, APU_NR21_ADDR, APU_NR31_ADDR,
                     APU_NR41_ADDR, APU_NR52_ADDR}
    THEN e
  ELSE
  CASE addr = APU_NR10_ADDR ->
         LET old_direction == e.sound.sweep.direction
             direction == DECODE(value, 3, 3)
         IN [e EXCEPT !.sound.sweep.period = DECODE(value, 6, 4),
                      !.sound.sweep.direction = direction,
                      !.sound.sweep.shift = DECODE(value, 2, 0),
                      !.sound.channel[CHANNEL1].status =
                        IF /\ old_direction = SWEEP_DIRECTION_SUBTRACTION
                           /\ direction = SWEEP_DIRECTION_ADDITION
                           /\ e.sound.sweep.calculated_subtract
                          THEN FALSE ELSE @]
    [] addr = APU_NR11_ADDR -> write_nrx1_reg(e, CHANNEL1, value)
    [] addr = APU_NR12_ADDR -> write_nrx2_reg(e, CHANNEL1, value)
    [] addr = APU_NR13_ADDR ->
         Let(write_nrx3_reg(e, CHANNEL1, value),
             LAMBDA e1 : write_square_wave_period(e1, CHANNEL1))
    [] addr = APU_NR14_ADDR ->
         Let(write_nrx4_reg(e, CHANNEL1, value, NRX1_MAX_LENGTH),
             LAMBDA r :
               Let(write_square_wave_period(r.e, CHANNEL1),
                   LAMBDA e1 :
                     IF r.trigger
                       THEN Let(trigger_nrx4_envelope(e1, CHANNEL1),
                                LAMBDA e2 : trigger_nr14_reg(e2, CHANNEL1))
                       ELSE e1))
    [] addr = APU_NR21_ADDR -> write_nrx1_reg(e, CHANNEL2, value)
    [] addr = APU_NR22_ADDR -> write_nrx2_reg(e, CHANNEL2, value)
    [] addr = APU_NR23_ADDR ->
         Let(write_nrx3_reg(e, CHANNEL2, value),
             LAMBDA e1 : write_square_wave_period(e1, CHANNEL2))
    [] addr = APU_NR24_ADDR ->
         Let(write_nrx4_reg(e, CHANNEL2, value, NRX1_MAX_LENGTH),
             LAMBDA r :
               Let(write_square_wave_period(r.e, CHANNEL2),
                   LAMBDA e1 :
                     IF r.trigger THEN trigger_nrx4_envelope(e1, CHANNEL2)
                     ELSE e1))
    [] addr = APU_NR30_ADDR ->
         LET dac_enabled == DECODE(value, 7, 7) = 1 IN
         [e EXCEPT !.sound.channel[CHANNEL3].dac_enabled = dac_enabled,
                   !.sound.channel[CHANNEL3].status =
                     IF ~dac_enabled THEN FALSE ELSE @,
                   !.sound.wave.playing = IF ~dac_enabled THEN FALSE ELSE @]
    [] addr = APU_NR31_ADDR ->
         [e EXCEPT !.sound.channel[CHANNEL3].length = NR31_MAX_LENGTH - value]
    [] addr = APU_NR32_ADDR ->
         [e EXCEPT !.sound.wave.volume = DECODE(value, 6, 5)]
    [] addr = APU_NR33_ADDR ->
         Let(write_nrx3_reg(e, CHANNEL3, value),
             LAMBDA e1 : write_wave_period(e1, CHANNEL3))
    [] addr = APU_NR34_ADDR ->
         Let(write_nrx4_reg(e, CHANNEL3, value, NR31_MAX_LENGTH),
             LAMBDA r :
               Let(write_wave_period(r.e, CHANNEL3),
                   LAMBDA e1 :
                     IF r.trigger THEN trigger_nr34_reg(e1, CHANNEL3)
                     ELSE e1))
    [] addr = APU_NR41_ADDR -> write_nrx1_reg(e, CHANNEL4, value)
    [] addr = APU_NR42_ADDR -> write_nrx2_reg(e, CHANNEL4, value)
    [] addr = APU_NR43_ADDR ->
         write_noise_period(
           [e EXCEPT !.sound.noise.clock_shift = DECODE(value, 7, 4),
                     !.sound.noise.lfsr_width = DECODE(value, 3, 3),
                     !.sound.noise.divisor = DECODE(value, 2, 0)],
           CHANNEL4)
    [] addr = APU_NR44_ADDR ->
         Let(write_nrx4_reg(e, CHANNEL4, value, NRX1_MAX_LENGTH),
             LAMBDA r :
               IF r.trigger
                 THEN Let(write_noise_period(r.e, CHANNEL4),
                          LAMBDA e1 :
                            trigger_nr44_reg(
                              trigger_nrx4_envelope(e1, CHANNEL4), CHANNEL4))
                 ELSE r.e)
    [] addr = APU_NR50_ADDR ->
         [e EXCEPT !.sound.so2_output[VIN] = DECODE(value, 7, 7),
                   !.sound.so2_volume = DECODE(value, 6, 4),
                   !.sound.so1_output[VIN] = DECODE(value, 3, 3),
                   !.sound.so1_volume = DECODE(value, 2, 0)]
    [] addr = APU_NR51_ADDR ->
         [e EXCEPT !.sound.so2_output[SOUND4] = DECODE(value, 7, 7),
                   !.sound.so2_output[SOUND3] = DECODE(value, 6, 6),
                   !.sound.so2_output[SOUND2] = DECODE(value, 5, 5),
                   !.sound.so2_output[SOUND1] = DECODE(value, 4, 4),
                   !.sound.so1_output[SOUND4] = DECODE(value, 3, 3),
                   !.sound.so1_output[SOUND3] = DECODE(value, 2, 2),
                   !.sound.so1_output[SOUND2] = DECODE(value, 1, 1),
                   !.sound.so1_output[SOUND1] = DECODE(value, 0, 0)]
    [] addr = APU_NR52_ADDR ->
         LET was_enabled == e.sound.enabled
             is_enabled == DECODE(value, 7, 7) = 1
             e1 == IF was_enabled /\ ~is_enabled
                     THEN write_apu_clear(e, 0)
                   ELSE IF ~was_enabled /\ is_enabled
                     THEN [e EXCEPT !.sound.frame = 7]
                   ELSE e
         IN [e1 EXCEPT !.sound.enabled = is_enabled]
    [] OTHER -> e

\* write_apu(e, addr, value) for each << addr, value >> of writes, in order
RECURSIVE write_apu_seq(_, _)
write_apu_seq(e, writes) ==
  IF writes = << >> THEN e
  ELSE Let(write_apu(e, Head(writes)[1], Head(writes)[2]),
           LAMBDA e1 : write_apu_seq(e1, Tail(writes)))

read_nrx1_reg(ch) == ENCODE(ch.square_wave.duty, 7, 6)

read_nrx2_reg(ch) ==
  BitOr(BitOr(ENCODE(ch.envelope.initial_volume, 7, 4),
              ENCODE(ch.envelope.direction, 3, 3)),
        ENCODE(ch.envelope.period, 2, 0))

read_nrx4_reg(ch) == ENCODE(B2N(ch.length_enabled), 6, 6)

\* read_apu's table of the bits that read as 1, indexed by addr + 1
apu_mask ==
  << 128,  63,   0, 255, 191,
     255,  63,   0, 255, 191,
     127, 255, 159, 255, 191,
     255, 255,   0,   0, 191,
       0,   0, 112,
     255, 255, 255, 255, 255, 255, 255, 255, 255 >>

read_apu(e, addr) ==
  LET snd == e.sound
      bits ==
        CASE addr = APU_NR10_ADDR ->
               BitOrAll(<< ENCODE(snd.sweep.period, 6, 4),
                        ENCODE(snd.sweep.direction, 3, 3),
                        ENCODE(snd.sweep.shift, 2, 0) >>)
          [] addr = APU_NR11_ADDR -> read_nrx1_reg(Chan(e, CHANNEL1))
          [] addr = APU_NR12_ADDR -> read_nrx2_reg(Chan(e, CHANNEL1))
          [] addr = APU_NR13_ADDR -> INVALID_READ_BYTE
          [] addr = APU_NR14_ADDR -> read_nrx4_reg(Chan(e, CHANNEL1))
          [] addr = APU_NR21_ADDR -> read_nrx1_reg(Chan(e, CHANNEL2))
          [] addr = APU_NR22_ADDR -> read_nrx2_reg(Chan(e, CHANNEL2))
          [] addr = APU_NR23_ADDR -> INVALID_READ_BYTE
          [] addr = APU_NR24_ADDR -> read_nrx4_reg(Chan(e, CHANNEL2))
          [] addr = APU_NR30_ADDR ->
               ENCODE(B2N(Chan(e, CHANNEL3).dac_enabled), 7, 7)
          [] addr = APU_NR31_ADDR -> INVALID_READ_BYTE
          [] addr = APU_NR32_ADDR -> ENCODE(snd.wave.volume, 6, 5)
          [] addr = APU_NR33_ADDR -> INVALID_READ_BYTE
          [] addr = APU_NR34_ADDR -> read_nrx4_reg(Chan(e, CHANNEL3))
          [] addr = APU_NR41_ADDR -> INVALID_READ_BYTE
          [] addr = APU_NR42_ADDR -> read_nrx2_reg(Chan(e, CHANNEL4))
          [] addr = APU_NR43_ADDR ->
               BitOrAll(<< ENCODE(snd.noise.clock_shift, 7, 4),
                        ENCODE(snd.noise.lfsr_width, 3, 3),
                        ENCODE(snd.noise.divisor, 2, 0) >>)
          [] addr = APU_NR44_ADDR -> read_nrx4_reg(Chan(e, CHANNEL4))
          [] addr = APU_NR50_ADDR ->
               BitOrAll(<< ENCODE(snd.so2_output[VIN], 7, 7),
                        ENCODE(snd.so2_volume, 6, 4),
                        ENCODE(snd.so1_output[VIN], 3, 3),
                        ENCODE(snd.so1_volume, 2, 0) >>)
          [] addr = APU_NR51_ADDR ->
               BitOrAll(<< ENCODE(snd.so2_output[SOUND4], 7, 7),
                        ENCODE(snd.so2_output[SOUND3], 6, 6),
                        ENCODE(snd.so2_output[SOUND2], 5, 5),
                        ENCODE(snd.so2_output[SOUND1], 4, 4),
                        ENCODE(snd.so1_output[SOUND4], 3, 3),
                        ENCODE(snd.so1_output[SOUND3], 2, 2),
                        ENCODE(snd.so1_output[SOUND2], 1, 1),
                        ENCODE(snd.so1_output[SOUND1], 0, 0) >>)
          [] addr = APU_NR52_ADDR ->
               BitOrAll(<< ENCODE(B2N(snd.enabled), 7, 7),
                        ENCODE(B2N(Chan(e, CHANNEL4).status), 3, 3),
                        ENCODE(B2N(Chan(e, CHANNEL3).status), 2, 2),
                        ENCODE(B2N(Chan(e, CHANNEL2).status), 1, 1),
                        ENCODE(B2N(Chan(e, CHANNEL1).status), 0, 0) >>)
          [] OTHER -> 0
  IN BitOr(apu_mask[addr + 1], bits)

read_wave_ram(e, addr) ==
  IF Chan(e, CHANNEL3).status
    THEN LET i == is_concurrent_wave_ram_access(e, 0) IN
         IF i # 0 THEN e.sound.wave.sample[i].byte ELSE INVALID_READ_BYTE
    ELSE Get(e.sound.wave.ram, addr)

write_wave_ram(e, addr, value) ==
  IF Chan(e, CHANNEL3).status
    THEN LET i == is_concurrent_wave_ram_access(e, 0) IN
         IF i # 0
           THEN [e EXCEPT !.sound.wave.ram =
                            Put(@, e.sound.wave.sample[i].position \div 2,
                                value)]
           ELSE e
    ELSE [e EXCEPT !.sound.wave.ram = Put(@, addr, value)]

(***************************************************************************)
(* The cartridge.  A function pointer of struct MemoryMap is the name of   *)
(* the function it points to; enum Result is "OK" or "ERROR".              *)
(***************************************************************************)
\* FOREACH_ROM_SIZE: banks of 16 KiB by the code at ROM_SIZE_ADDR, zero for
\* the codes the table leaves out
s_rom_bank_size(code) ==
  CASE code \in 0 .. 7 -> 2 ^ (code + 1)
    [] code = 82 -> 72
    [] code = 83 -> 80
    [] code = 84 -> 96
    [] OTHER -> 0

\* FOREACH_RAM_SIZE: bytes of external RAM by the code at RAM_SIZE_ADDR; the
\* array has four elements
s_ram_bank_size(code) ==
  CASE code = 0 -> 0
    [] code = 1 -> 2048
    [] code = 2 -> 8192
    [] code = 3 -> 32768

\* FOREACH_CARTRIDGE_TYPE: the controller by the code at CARTRIDGE_TYPE_ADDR;
\* the codes the table leaves out are zero-initialised, which is NO_MBC
s_mbc_type(code) ==
  CASE code \in {1, 2, 3} -> "MBC1"
    [] code \in {5, 6} -> "MBC2"
    [] code \in {11, 12, 13} -> "MMM01"
    [] code \in 15 .. 19 -> "MBC3"
    [] code \in {21, 22, 23} -> "MBC4"
    [] code \in 25 .. 30 -> "MBC5"
    [] code = 253 -> "TAMA5"
    [] code = 254 -> "HUC3"
    [] code = 255 -> "HUC1"
    [] OTHER -> "NO_MBC"

s_external_ram_type(code) ==
  IF code \in {2, 3, 8, 9, 12, 13, 16, 18, 19, 22, 23, 26, 27, 29, 30, 255}
    THEN "WITH_RAM" ELSE "NO_RAM"

s_battery_type(code) ==
  IF code \in {3, 6, 9, 13, 15, 16, 19, 23, 27, 30}
    THEN "WITH_BATTERY" ELSE "NO_BATTERY"

is_rom_size_valid(rom_size) == rom_size < ROM_SIZE_COUNT

get_rom_bank_count(rom_size) ==
  IF is_rom_size_valid(rom_size) THEN s_rom_bank_size(rom_size) ELSE 0

get_rom_byte_size(rom_size) == get_rom_bank_count(rom_size) * 2 ^ ROM_BANK_SHIFT

\* checksum = checksum - data[i] - 1 over the header, in 8 bits
RECURSIVE header_checksum(_, _)
header_checksum(data, i) ==
  IF i < HEADER_CHECKSUM_RANGE_START THEN 0
  ELSE U8(header_checksum(data, i - 1) - Get(data, i) - 1)

validate_header_checksum(rom_data) ==
  IF header_checksum(rom_data.data, HEADER_CHECKSUM_RANGE_END)
       = Get(rom_data.data, HEADER_CHECKSUM_ADDR)
    THEN "OK" ELSE "ERROR"

\* faulty variant of get_rom_info: the length of the image is not compared
\* with the size its header declares
get_rom_info_any_size(rom_data) ==
  [result |-> "OK",
   rom_info |->
     [rom_size |-> Get(rom_data.data, ROM_SIZE_ADDR),
      rom_banks |-> get_rom_bank_count(Get(rom_data.data, ROM_SIZE_ADDR)),
      cartridge_type |-> Get(rom_data.data, CARTRIDGE_TYPE_ADDR),
      ram_size |-> Get(rom_data.data, RAM_SIZE_ADDR),
      header_checksum |-> Get(rom_data.data, HEADER_CHECKSUM_ADDR),
      header_checksum_valid |-> validate_header_checksum(rom_data)]]

\* the title, the CGB and SGB flags and the global checksum are only printed
get_rom_info(rom_data) ==
  [result |->
     IF rom_data.size
          = get_rom_byte_size(Get(rom_data.data, ROM_SIZE_ADDR))
       THEN "OK" ELSE "ERROR",
   rom_info |->
     [rom_size |-> Get(rom_data.data, ROM_SIZE_ADDR),
      rom_banks |-> get_rom_bank_count(Get(rom_data.data, ROM_SIZE_ADDR)),
      cartridge_type |-> Get(rom_data.data, CARTRIDGE_TYPE_ADDR),
      ram_size |-> Get(rom_data.data, RAM_SIZE_ADDR),
      header_checksum |-> Get(rom_data.data, HEADER_CHECKSUM_ADDR),
      header_checksum_valid |-> validate_header_checksum(rom_data)]]

\* faulty variant of mbc1_write_rom: the byte lands in the ROM image
mbc1_write_rom_stores(e, addr, value) ==
  [e EXCEPT !.rom.data = Put(@, addr, value)]

\* faulty variant of mbc1_write_rom: a ROM bank whose low 5 bits are 0 is
\* selected as written
mbc1_write_rom_keeps_zero(e, addr, value) ==
  LET hi == addr \div 8192
      mbc1 == [e.memory_map.mbc1 EXCEPT
                 !.byte_2000_3fff = IF hi = 1 THEN value ELSE @,
                 !.byte_4000_5fff = IF hi = 2 THEN value ELSE @,
                 !.bank_mode = IF hi = 3 THEN value % 2 ELSE @]
      lo == BitAnd(mbc1.byte_2000_3fff, MBC1_ROM_BANK_LO_SELECT_MASK)
      bank_hi == BitAnd(mbc1.byte_4000_5fff, MBC1_BANK_HI_SELECT_MASK)
  IN [e EXCEPT
        !.memory_map.ext_ram_enabled =
          IF hi = 0
            THEN BitAnd(value, MBC_RAM_ENABLED_MASK) = MBC_RAM_ENABLED_VALUE
            ELSE @,
        !.memory_map.mbc1 = mbc1,
        !.memory_map.rom_bank =
          IF mbc1.bank_mode = BANK_MODE_ROM
            THEN BitOr(lo, bank_hi * 2 ^ MBC1_BANK_HI_SHIFT)
            ELSE lo,
        !.memory_map.ext_ram_bank =
          IF mbc1.bank_mode = BANK_MODE_ROM THEN 0 ELSE bank_hi]

mbc1_write_rom(e, addr, value) ==
  LET hi == addr \div 8192
      mbc1 == [e.memory_map.mbc1 EXCEPT
                 !.byte_2000_3fff = IF hi = 1 THEN value ELSE @,
                 !.byte_4000_5fff = IF hi = 2 THEN value ELSE @,
                 !.bank_mode = IF hi = 3 THEN value % 2 ELSE @]
      lo == IF BitAnd(mbc1.byte_2000_3fff, MBC1_ROM_BANK_LO_SELECT_MASK) = 0
              THEN 1
              ELSE BitAnd(mbc1.byte_2000_3fff, MBC1_ROM_BANK_LO_SELECT_MASK)
      bank_hi == BitAnd(mbc1.byte_4000_5fff, MBC1_BANK_HI_SELECT_MASK)
  IN [e EXCEPT
        !.memory_map.ext_ram_enabled =
          IF hi = 0
            THEN BitAnd(value, MBC_RAM_ENABLED_MASK) = MBC_RAM_ENABLED_VALUE
            ELSE @,
        !.memory_map.mbc1 = mbc1,
        !.memory_map.rom_bank =
          IF mbc1.bank_mode = BANK_MODE_ROM
            THEN BitOr(lo, bank_hi * 2 ^ MBC1_BANK_HI_SHIFT)
            ELSE lo,
        !.memory_map.ext_ram_bank =
          IF mbc1.bank_mode = BANK_MODE_ROM THEN 0 ELSE bank_hi]

mbc2_write_rom(e, addr, value) ==
  CASE addr \div 8192 = 0 /\ BitAnd(addr, MBC2_ADDR_SELECT_BIT_MASK) = 0 ->
         [e EXCEPT !.memory_map.ext_ram_enabled =
                     BitAnd(value, MBC_RAM_ENABLED_MASK)
                       = MBC_RAM_ENABLED_VALUE]
    [] addr \div 8192 = 1 /\ BitAnd(addr, MBC2_ADDR_SELECT_BIT_MASK) # 0 ->
         [e EXCEPT !.memory_map.rom_bank =
                     BitAnd(value, MBC2_ROM_BANK_SELECT_MASK)]
    [] OTHER -> e

mbc3_write_rom(e, addr, value) ==
  CASE addr \div 8192 = 0 ->
         [e EXCEPT !.memory_map.ext_ram_enabled =
                     BitAnd(value, MBC_RAM_ENABLED_MASK)
                       = MBC_RAM_ENABLED_VALUE]
    [] addr \div 8192 = 1 ->
         [e EXCEPT !.memory_map.rom_bank =
                     BitAnd(value, MBC3_ROM_BANK_SELECT_MASK)]
    [] addr \div 8192 = 2 ->
         [e EXCEPT !.memory_map.ext_ram_bank =
                     BitAnd(value, MBC3_RAM_BANK_SELECT_MASK)]
    [] OTHER -> e

get_external_ram_address(e, addr) ==
  LET ram_addr == e.memory_map.ext_ram_bank * 2 ^ EXTERNAL_RAM_BANK_SHIFT
                    + addr
  IN IF ram_addr < e.external_ram.size THEN ram_addr ELSE 0

gb_read_external_ram(e, addr) ==
  IF e.memory_map.ext_ram_enabled
    THEN Get(e.external_ram.data, get_external_ram_address(e, addr))
    ELSE INVALID_READ_BYTE

gb_write_external_ram(e, addr, value) ==
  IF e.memory_map.ext_ram_enabled
    THEN [e EXCEPT !.external_ram.data =
                     Put(@, get_external_ram_address(e, addr), value)]
    ELSE e

mbc2_read_ram(e, addr) ==
  IF e.memory_map.ext_ram_enabled
    THEN Get(e.external_ram.data, BitAnd(addr, MBC2_RAM_ADDR_MASK))
    ELSE INVALID_READ_BYTE

mbc2_write_ram(e, addr, value) ==
  IF e.memory_map.ext_ram_enabled
    THEN [e EXCEPT !.external_ram.data =
                     Put(@, BitAnd(addr, MBC2_RAM_ADDR_MASK),
                         BitAnd(value, MBC2_RAM_VALUE_MASK))]
    ELSE e

\* e->memory_map.read_external_ram(e, addr)
read_external_ram(e, addr) ==
  CASE e.memory_map.read_external_ram = "gb_read_external_ram" ->
         gb_read_external_ram(e, addr)
    [] e.memory_map.read_external_ram = "mbc2_read_ram" ->
         mbc2_read_ram(e, addr)
    [] OTHER -> dummy_read_external_ram(e, addr)

read_u8_no_dma_check(e, pair) ==
  CASE pair.type = "ROM" -> Get(e.rom.data, pair.addr)
    [] pair.type = "ROM_BANK_SWITCH" ->
         LET rom_bank == e.memory_map.rom_bank
             rom_addr == rom_bank * 2 ^ ROM_BANK_SHIFT + pair.addr
         IN IF rom_addr < e.rom.size THEN Get(e.rom.data, rom_addr)
            ELSE INVALID_READ_BYTE
    [] pair.type = "VRAM" -> read_vram(e, pair.addr)
    [] pair.type = "EXTERNAL_RAM" -> read_external_ram(e, pair.addr)
    [] pair.type = "WORK_RAM" -> Get(e.ram, pair.addr)
    [] pair.type = "WORK_RAM_BANK_SWITCH" ->
         gb_read_work_ram_bank_switch(e, pair.addr)
    [] pair.type = "OAM" -> read_oam(e, pair.addr)
    [] pair.type = "UNUSED" -> 0
    [] pair.type = "IO" -> read_io(e, pair.addr)
    [] pair.type = "APU" -> read_apu(e, pair.addr)
    [] pair.type = "WAVE_RAM" -> read_wave_ram(e, pair.addr)
    [] pair.type = "HIGH_RAM" -> Get(e.hram, pair.addr)

read_u8(e, addr) ==
  LET pair == map_address(addr) IN
  IF ~is_dma_access_ok(e, pair) THEN INVALID_READ_BYTE
  ELSE read_u8_no_dma_check(e, pair)

read_u16(e, addr) ==
  read_u8(e, addr) + 256 * read_u8(e, U16(addr + 1))

(***************************************************************************)
(* Timer.                                                                  *)
(***************************************************************************)
\* faulty variant of increment_tima: the reload and the interrupt request
\* happen in the tick that overflows
increment_tima_immediate(e) ==
  LET t == U8(e.timer.TIMA + 1) IN
  IF t = 0
    THEN [e EXCEPT !.timer.TIMA = e.timer.TMA,
                   !.interrupts.IF = BitOr(@, INTERRUPT_TIMER_MASK)]
    ELSE [e EXCEPT !.timer.TIMA = t]

increment_tima(e) ==
  LET t == U8(e.timer.TIMA + 1) IN
  [e EXCEPT !.timer.TIMA = t,
            !.timer.tima_overflow = IF t = 0 THEN TRUE ELSE @]

write_div_counter(e, div_counter) ==
  LET falling_edge ==
        BitAnd(BitXor(e.timer.div_counter, div_counter),
               BitNot16(div_counter))
      e1 == IF e.timer.on
               /\ BitAnd(falling_edge,
                         s_tima_mask[e.timer.clock_select + 1]) # 0
              THEN increment_tima(e)
              ELSE e
  IN [e1 EXCEPT !.timer.div_counter = div_counter]

(***************************************************************************)
(* Writes.                                                                 *)
(***************************************************************************)
\* only the raw byte is kept; the unpacked tile and map copies are read off
\* the raw bytes by vram_tile and get_tile_map
write_vram(e, addr, value) ==
  IF e.lcd.stat.mode = LCD_MODE_USING_OAM_VRAM THEN e
  ELSE [e EXCEPT !.vram = Put(@, addr, value)]

\* faulty variant of write_oam_no_mode_check: the write is dropped while the
\* PPU uses OAM
write_oam_mode_checked(e, addr, value) ==
  IF is_using_oam(e) THEN e
  ELSE CASE addr % 4 = 0 ->
              [e EXCEPT !.oam = Put(@, addr, U8(value - OBJ_Y_OFFSET))]
         [] addr % 4 = 1 ->
              [e EXCEPT !.oam = Put(@, addr, U8(value - OBJ_X_OFFSET))]
         [] OTHER -> [e EXCEPT !.oam = Put(@, addr, value)]

\* an Obj keeps y and x with their offsets removed; byte 3 is kept whole
write_oam_no_mode_check(e, addr, value) ==
  CASE addr % 4 = 0 -> [e EXCEPT !.oam = Put(@, addr, U8(value - OBJ_Y_OFFSET))]
    [] addr % 4 = 1 -> [e EXCEPT !.oam = Put(@, addr, U8(value - OBJ_X_OFFSET))]
    [] OTHER -> [e EXCEPT !.oam = Put(@, addr, value)]

write_oam(e, addr, value) ==
  IF is_using_oam(e) THEN e ELSE write_oam_no_mode_check(e, addr, value)

\* WRITE_REG of the four colours of a palette
write_palette(value) ==
  << DECODE(value, 1, 0), DECODE(value, 3, 2),
     DECODE(value, 5, 4), DECODE(value, 7, 6) >>

\* faulty variant of lcdc_switch: enabling the display keeps the mode
lcdc_switch_keeps_mode(e1, was_enabled) ==
  IF was_enabled /\ ~e1.lcd.lcdc.display
    THEN [e1 EXCEPT !.lcd.cycles = 0, !.lcd.LY = 0, !.lcd.fake_LY = 0,
                    !.lcd.stat.mode = LCD_MODE_VBLANK]
  ELSE IF ~was_enabled /\ e1.lcd.lcdc.display
    THEN [e1 EXCEPT !.lcd.cycles = 0, !.lcd.LY = 0]
  ELSE e1

\* faulty variant of lcdc_switch: enabling the display keeps lcd.cycles
lcdc_switch_keeps_cycles(e1, was_enabled) ==
  IF was_enabled /\ ~e1.lcd.lcdc.display
    THEN [e1 EXCEPT !.lcd.cycles = 0, !.lcd.LY = 0, !.lcd.fake_LY = 0,
                    !.lcd.stat.mode = LCD_MODE_VBLANK]
  ELSE IF ~was_enabled /\ e1.lcd.lcdc.display
    THEN [e1 EXCEPT !.lcd.LY = 0, !.lcd.stat.mode = LCD_MODE_USING_OAM]
  ELSE e1

\* the LCDC write once lcdc is stored: the display switched off or on
lcdc_switch(e1, was_enabled) ==
  IF was_enabled /\ ~e1.lcd.lcdc.display
    THEN [e1 EXCEPT !.lcd.cycles = 0, !.lcd.LY = 0, !.lcd.fake_LY = 0,
                    !.lcd.stat.mode = LCD_MODE_VBLANK]
  ELSE IF ~was_enabled /\ e1.lcd.lcdc.display
    THEN [e1 EXCEPT !.lcd.cycles = 0, !.lcd.LY = 0,
                    !.lcd.stat.mode = LCD_MODE_USING_OAM]
  ELSE e1

write_io(e, addr, value) ==
  CASE addr = IO_JOYP_ADDR ->
         [e EXCEPT !.joypad.joypad_select = DECODE(value, 5, 4)]
    [] addr = IO_SB_ADDR -> e
    [] addr = IO_SC_ADDR ->
         [e EXCEPT !.serial.transfer_start = DECODE(value, 7, 7),
                   !.serial.shift_clock = DECODE(value, 0, 0)]
    [] addr = IO_DIV_ADDR -> write_div_counter(e, 0)
    [] addr = IO_TIMA_ADDR -> [e EXCEPT !.timer.TIMA = value]
    [] addr = IO_TMA_ADDR -> [e EXCEPT !.timer.TMA = value]
    [] addr = IO_TAC_ADDR ->
         LET old_timer_on == e.timer.on
             old_tima_mask == s_tima_mask[e.timer.clock_select + 1]
             e1 == [e EXCEPT !.timer.clock_select = DECODE(value, 1, 0),
                             !.timer.on = (DECODE(value, 2, 2) = 1)]
             tima_mask == s_tima_mask[e1.timer.clock_select + 1]
             tima_tick ==
               IF e1.timer.on
                 THEN BitAnd(e1.timer.div_counter, old_tima_mask) # 0
                 ELSE /\ BitAnd(e1.timer.div_counter, old_tima_mask) # 0
                      /\ BitAnd(e1.timer.div_counter, tima_mask) = 0
         IN IF ~old_timer_on /\ tima_tick THEN increment_tima(e1) ELSE e1
    [] addr = IO_IF_ADDR -> [e EXCEPT !.interrupts.IF = value]
    [] addr = IO_LCDC_ADDR ->
         LET was_enabled == e.lcd.lcdc.display
             e1 == [e EXCEPT !.lcd.lcdc =
                      [display |-> (DECODE(value, 7, 7) = 1),
                       window_tile_map_select |-> DECODE(value, 6, 6),
                       window_display |-> DECODE(value, 5, 5),
                       bg_tile_data_select |-> DECODE(value, 4, 4),
                       bg_tile_map_select |-> DECODE(value, 3, 3),
                       obj_size |-> DECODE(value, 2, 2),
                       obj_display |-> DECODE(value, 1, 1),
                       bg_display |-> DECODE(value, 0, 0)]]
         IN lcdc_switch(e1, was_enabled)
    [] addr = IO_STAT_ADDR ->
         [e EXCEPT !.lcd.stat.y_compare_intr = (DECODE(value, 6, 6) = 1),
                   !.lcd.stat.using_oam_intr = (DECODE(value, 5, 5) = 1),
                   !.lcd.stat.vblank_intr = (DECODE(value, 4, 4) = 1),
                   !.lcd.stat.hblank_intr = (DECODE(value, 3, 3) = 1)]
    [] addr = IO_SCY_ADDR -> [e EXCEPT !.lcd.SCY = value]
    [] addr = IO_SCX_ADDR -> [e EXCEPT !.lcd.SCX = value]
    [] addr = IO_LY_ADDR -> e
    [] addr = IO_LYC_ADDR -> [e EXCEPT !.lcd.LYC = value]
    [] addr = IO_DMA_ADDR ->
         [e EXCEPT !.dma = [active |-> TRUE,
                            source |-> map_address(value * 256),
                            addr_offset |-> 0,
                            cycles |-> 0]]
    [] addr = IO_BGP_ADDR -> [e EXCEPT !.palettes.bgp = write_palette(value)]
    [] addr = IO_OBP0_ADDR -> [e EXCEPT !.palettes.obp0 = write_palette(value)]
    [] addr = IO_OBP1_ADDR -> [e EXCEPT !.palettes.obp1 = write_palette(value)]
    [] addr = IO_WY_ADDR -> [e EXCEPT !.lcd.WY = value]
    [] addr = IO_WX_ADDR -> [e EXCEPT !.lcd.WX = value]
    [] addr = IO_IE_ADDR -> [e EXCEPT !.interrupts.IE = value]
    [] OTHER -> e

\* write_rom of a cartridge without controller
rom_only_write_rom(e, addr, value) == e

\* write_external_ram of a cartridge without RAM
dummy_write_external_ram(e, addr, value) == e

gb_write_work_ram_bank_switch(e, addr, value) ==
  [e EXCEPT !.ram = Put(@, 4096 + addr, value)]

\* e->memory_map.write_rom(e, addr, value)
write_rom(e, addr, value) ==
  CASE e.memory_map.write_rom = "mbc1_write_rom" ->
         mbc1_write_rom(e, addr, value)
    [] e.memory_map.write_rom = "mbc2_write_rom" ->
         mbc2_write_rom(e, addr, value)
    [] e.memory_map.write_rom = "mbc3_write_rom" ->
         mbc3_write_rom(e, addr, value)
    [] OTHER -> rom_only_write_rom(e, addr, value)

\* e->memory_map.write_external_ram(e, addr, value)
write_external_ram(e, addr, value) ==
  CASE e.memory_map.write_external_ram = "gb_write_external_ram" ->
         gb_write_external_ram(e, addr, value)
    [] e.memory_map.write_external_ram = "mbc2_write_ram" ->
         mbc2_write_ram(e, addr, value)
    [] OTHER -> dummy_write_external_ram(e, addr, value)

write_u8(e, addr, value) ==
  LET pair == map_address(addr) IN
  IF ~is_dma_access_ok(e, pair) THEN e
  ELSE CASE pair.type = "ROM" -> write_rom(e, pair.addr, value)
         [] pair.type = "ROM_BANK_SWITCH" ->
              write_rom(e, pair.addr + 16384, value)
         [] pair.type = "VRAM" -> write_vram(e, pair.addr, value)
         [] pair.type = "EXTERNAL_RAM" ->
              write_external_ram(e, pair.addr, value)
         [] pair.type = "WORK_RAM" ->
              [e EXCEPT !.ram = Put(@, pair.addr, value)]
         [] pair.type = "WORK_RAM_BANK_SWITCH" ->
              gb_write_work_ram_bank_switch(e, pair.addr, value)
         [] pair.type = "OAM" -> write_oam(e, pair.addr, value)
         [] pair.type = "UNUSED" -> e
         [] pair.type = "IO" -> write_io(e, pair.addr, value)
         [] pair.type = "APU" ->
              Let(<< e, pair.addr, value >>,
                  LAMBDA a : write_apu(a[1], a[2], a[3]))
         [] pair.type = "WAVE_RAM" ->
              Let(<< e, pair.addr, value >>,
                  LAMBDA a : write_wave_ram(a[1], a[2], a[3]))
         [] pair.type = "HIGH_RAM" ->
              [e EXCEPT !.hram = Put(@, pair.addr, value)]

write_u16(e, addr, value) ==
  write_u8(write_u8(e, addr, value % 256), U16(addr + 1), value \div 256)

(***************************************************************************)
(* The advance functions.  Each is charged the cycles of the CPU step.     *)
(***************************************************************************)
\* faulty variant of VALUE_WRAPPED: restarts the counter at 0 and so drops
\* the cycles beyond MAX
VALUE_WRAPPED_reset(x, max) ==
  IF x >= max THEN [v |-> 0, wrapped |-> TRUE]
  ELSE [v |-> x, wrapped |-> FALSE]

\* faulty variant of VALUE_WRAPPED: the counter wraps only once it is past
\* MAX
VALUE_WRAPPED_late(x, max) ==
  IF x > max THEN [v |-> x - max, wrapped |-> TRUE]
  ELSE [v |-> x, wrapped |-> FALSE]

\* VALUE_WRAPPED(X, MAX): X >= MAX ? (X -= MAX, TRUE) : FALSE
VALUE_WRAPPED(x, max) ==
  IF x >= max THEN [v |-> x - max, wrapped |-> TRUE]
  ELSE [v |-> x, wrapped |-> FALSE]

RECURSIVE dma_copy(_, _, _)
\* the copy loop of update_dma_cycles; n is its counter
dma_copy(e, n, cyc) ==
  IF n < cyc /\ e.dma.addr_offset < OAM_TRANSFER_SIZE
    THEN LET pair == [e.dma.source EXCEPT !.addr = @ + e.dma.addr_offset]
             value == read_u8_no_dma_check(e, pair)
             e1 == write_oam_no_mode_check(e, e.dma.addr_offset, value)
         IN dma_copy([e1 EXCEPT !.dma.addr_offset = @ + 1], n + 4, cyc)
    ELSE e

update_dma_cycles(e0, cyc) ==
  LET e == Note(e0, "dma", cyc) IN
  IF ~e.dma.active THEN e
  ELSE Let(IF e.dma.addr_offset < OAM_TRANSFER_SIZE
             THEN dma_copy(e, 0, cyc) ELSE e,
           LAMBDA e1 :
             LET w == VALUE_WRAPPED(e1.dma.cycles + cyc, DMA_CYCLES) IN
             IF w.wrapped
               THEN [e1 EXCEPT !.dma.cycles = w.v, !.dma.active = FALSE]
               ELSE [e1 EXCEPT !.dma.cycles = w.v])

\* faulty: every interrupt the PPU raises also raises LCDStat
RaiseIF_with_stat(e, mask) ==
  [e EXCEPT !.interrupts.IF = BitOr(BitOr(@, mask), INTERRUPT_LCD_STAT_MASK)]

\* e->interrupts.IF |= mask
RaiseIF(e, mask) == [e EXCEPT !.interrupts.IF = BitOr(@, mask)]

(***************************************************************************)
(* The renderer.  The frame buffer is output only: nothing of the emulator *)
(* reads it, so it is kept in the aggregate during a step (frame_buffer,   *)
(* the lines rendered in the step by their number) and is not a variable;  *)
(* a line is kept as the registers and memories it is drawn from, and      *)
(* render_line_data gives its pixels.                                      *)
(* vram.tile and vram.map are the copies that write_vram unpacks from the   *)
(* raw bytes at every write; they are read here from the raw bytes.  The    *)
(* config switches disable_bg, disable_window and disable_obj are keyboard  *)
(* toggles of the front end and stay FALSE.                                 *)
(***************************************************************************)
s_color_to_rgba(color) ==
  CASE color = COLOR_WHITE -> RGBA_WHITE
    [] color = COLOR_LIGHT_GRAY -> RGBA_LIGHT_GRAY
    [] color = COLOR_DARK_GRAY -> RGBA_DARK_GRAY
    [] color = COLOR_BLACK -> RGBA_BLACK

\* faulty variant of s_color_to_obj_mask: no colour lets a sprite through
s_color_to_obj_mask_none(color) == 0

s_color_to_obj_mask(color) == IF color = COLOR_WHITE THEN 255 ELSE 0

s_obj_size_to_height(size) == IF size = OBJ_SIZE_8X16 THEN 16 ELSE 8

\* e->vram.tile[tile][i], as write_vram_tile_data unpacked it: bit 7 - x of
\* the row's two bytes; tiles 384..511 mirror tiles 128..255
vram_tile(e, tile, i) ==
  LET raw == IF tile >= 384 THEN tile - 256 ELSE tile
      y == i \div TILE_WIDTH
      x == i % TILE_WIDTH
      lo == Get(e.vram, raw * 16 + y * 2)
      hi == Get(e.vram, raw * 16 + y * 2 + 1)
  IN DECODE(lo, 7 - x, 7 - x) + 2 * DECODE(hi, 7 - x, 7 - x)

\* e->vram.map[select][i]
get_tile_map(e, select, i) == Get(e.vram, 6144 + select * 1024 + i)

\* the index in vram.tile of the first tile of the selected tile data
get_tile_data(select) == IF select = TILE_DATA_8000_8FFF THEN 0 ELSE 256

get_tile_map_palette_index(e, map, tiles, x, y) ==
  LET tile_index ==
        get_tile_map(e, map, (y \div 8) * TILE_MAP_WIDTH + (x \div 8))
  IN vram_tile(e, tiles + tile_index, (y % 8) * TILE_WIDTH + (x % 8))

\* palette is the sequence of the four colours
get_palette_index_rgba(palette_index, palette) ==
  s_color_to_rgba(palette[palette_index + 1])

\* e->oam.objs[n]
oam_obj(e, n) ==
  LET byte3 == Get(e.oam, 4 * n + 3) IN
  [y |-> Get(e.oam, 4 * n), x |-> Get(e.oam, 4 * n + 1),
   tile |-> Get(e.oam, 4 * n + 2),
   priority |-> DECODE(byte3, 7, 7), yflip |-> DECODE(byte3, 6, 6),
   xflip |-> DECODE(byte3, 5, 5), palette |-> DECODE(byte3, 4, 4)]

RECURSIVE insert_obj(_, _, _)
\* the insertion of render_line: o goes below the objects of greater x
insert_obj(line_objs, o, j) ==
  IF j > 0 /\ o.x < line_objs[j].x
    THEN insert_obj(line_objs, o, j - 1)
    ELSE SubSeq(line_objs, 1, j) \o << o >>
         \o SubSeq(line_objs, j + 1, Len(line_objs))

RECURSIVE select_objs(_, _, _, _, _)
\* the first loop over OAM of render_line; line_objs holds dst objects
select_objs(e, line_y, obj_height, n, line_objs) ==
  IF n < OBJ_COUNT /\ Len(line_objs) < OBJ_PER_LINE_COUNT
    THEN LET src == oam_obj(e, n)
             rel_y == U8(line_y - src.y)
         IN select_objs(e, line_y, obj_height, n + 1,
              IF rel_y < obj_height
                THEN insert_obj(line_objs, [src EXCEPT !.y = rel_y],
                                Len(line_objs))
                ELSE line_objs)
    ELSE line_objs

\* one object drawn onto the line px = [line_data, bg_obj_mask]; the pixel
\* sx is pixel U8(sx - o.x) of the object's row
draw_obj(e, px, o, obj_height) ==
  LET oy == IF o.yflip = 1 THEN obj_height - 1 - o.y ELSE o.y
      tile == IF obj_height = 8 THEN o.tile
              ELSE IF oy < 8 THEN o.tile - (o.tile % 2)
              ELSE o.tile - (o.tile % 2) + 1
      row == IF obj_height = 8 \/ oy < 8 THEN oy ELSE oy - 8
      palette == IF o.palette = 1 THEN e.palettes.obp1 ELSE e.palettes.obp0
      index(n) == vram_tile(e, tile, row * TILE_HEIGHT
                                       + (IF o.xflip = 1 THEN 7 - n ELSE n))
  IN [px EXCEPT !.line_data =
        [sx \in 0 .. SCREEN_WIDTH - 1 |->
           IF /\ U8(sx - o.x) < 8
              /\ ~(o.priority = OBJ_PRIORITY_BEHIND_BG
                     /\ px.bg_obj_mask[sx] = 0)
              /\ index(U8(sx - o.x)) # 0
             THEN get_palette_index_rgba(index(U8(sx - o.x)), palette)
             ELSE px.line_data[sx]]]

RECURSIVE draw_objs(_, _, _, _, _)
\* the second loop of render_line: line_objs[n + 1] down to line_objs[1]
draw_objs(e, px, line_objs, n, obj_height) ==
  IF n >= 0
    THEN draw_objs(e, draw_obj(e, px, line_objs[n + 1], obj_height),
                   line_objs, n - 1, obj_height)
    ELSE px

\* faulty variant of render_line_bg: a disabled background is index 0 in
\* the colour of BGP
render_line_bg_bgp(e, line_y, px) ==
  IF e.lcd.lcdc.bg_display = 1
    THEN [line_data |->
            [sx \in 0 .. SCREEN_WIDTH - 1 |->
               get_palette_index_rgba(
                 get_tile_map_palette_index(e, e.lcd.lcdc.bg_tile_map_select,
                   get_tile_data(e.lcd.lcdc.bg_tile_data_select),
                   U8(e.lcd.SCX + sx), U8(line_y + e.lcd.SCY)),
                 e.palettes.bgp)],
          bg_obj_mask |->
            [sx \in 0 .. SCREEN_WIDTH - 1 |->
               s_color_to_obj_mask(
                 get_tile_map_palette_index(e, e.lcd.lcdc.bg_tile_map_select,
                   get_tile_data(e.lcd.lcdc.bg_tile_data_select),
                   U8(e.lcd.SCX + sx), U8(line_y + e.lcd.SCY)))]]
    ELSE [px EXCEPT !.line_data =
            [sx \in 0 .. SCREEN_WIDTH - 1 |->
               get_palette_index_rgba(0, e.palettes.bgp)]]

\* the background of render_line
render_line_bg(e, line_y, px) ==
  IF e.lcd.lcdc.bg_display = 1
    THEN [line_data |->
            [sx \in 0 .. SCREEN_WIDTH - 1 |->
               get_palette_index_rgba(
                 get_tile_map_palette_index(e, e.lcd.lcdc.bg_tile_map_select,
                   get_tile_data(e.lcd.lcdc.bg_tile_data_select),
                   U8(e.lcd.SCX + sx), U8(line_y + e.lcd.SCY)),
                 e.palettes.bgp)],
          bg_obj_mask |->
            [sx \in 0 .. SCREEN_WIDTH - 1 |->
               s_color_to_obj_mask(
                 get_tile_map_palette_index(e, e.lcd.lcdc.bg_tile_map_select,
                   get_tile_data(e.lcd.lcdc.bg_tile_data_select),
                   U8(e.lcd.SCX + sx), U8(line_y + e.lcd.SCY)))]]
    ELSE px

\* the window is on this line
window_on_line(e, line_y) ==
  /\ e.lcd.lcdc.window_display = 1
  /\ e.lcd.WX <= WINDOW_MAX_X
  /\ line_y >= e.lcd.frame_WY

\* the window of render_line
render_line_window(e, line_y, px) ==
  LET first == IF e.lcd.WX < WINDOW_X_OFFSET THEN 0
               ELSE e.lcd.WX - WINDOW_X_OFFSET
      skip == IF e.lcd.WX < WINDOW_X_OFFSET
                THEN WINDOW_X_OFFSET - e.lcd.WX ELSE 0
      index(sx) ==
        get_tile_map_palette_index(e, e.lcd.lcdc.window_tile_map_select,
          get_tile_data(e.lcd.lcdc.bg_tile_data_select),
          U8(skip + sx - first), e.lcd.win_y)
  IN IF window_on_line(e, line_y)
       THEN [line_data |->
               [sx \in 0 .. SCREEN_WIDTH - 1 |->
                  IF sx >= first
                    THEN get_palette_index_rgba(index(sx), e.palettes.bgp)
                    ELSE px.line_data[sx]],
             bg_obj_mask |->
               [sx \in 0 .. SCREEN_WIDTH - 1 |->
                  IF sx >= first THEN s_color_to_obj_mask(index(sx))
                  ELSE px.bg_obj_mask[sx]]]
       ELSE px

\* the sprites of render_line
render_line_obj(e, line_y, px) ==
  LET obj_height == s_obj_size_to_height(e.lcd.lcdc.obj_size)
      line_objs == select_objs(e, line_y, obj_height, 0, << >>)
  IN IF e.lcd.lcdc.obj_display = 1
       THEN draw_objs(e, px, line_objs, Len(line_objs) - 1, obj_height)
       ELSE px

\* line_data of render_line, the pixels of the line; src holds the lcd,
\* palettes, vram and oam that render_line draws from
render_line_data(src, line_y) ==
  LET cleared ==
        [line_data |-> [sx \in 0 .. SCREEN_WIDTH - 1 |-> RGBA_WHITE],
         bg_obj_mask |-> [sx \in 0 .. SCREEN_WIDTH - 1 |->
                            s_color_to_obj_mask(COLOR_WHITE)]]
      drawn ==
        render_line_obj(src, line_y,
          render_line_window(src, line_y,
            render_line_bg(src, line_y, cleared)))
  IN IF ~src.lcd.lcdc.display THEN cleared.line_data ELSE drawn.line_data

\* render_line as update_lcd_cycles calls it: the line of the frame buffer
\* is kept as what it is drawn from, and the window's line counter moves on
render_line(e, line_y) ==
  [e EXCEPT
     !.frame_buffer = Put(@, line_y, [lcd |-> e.lcd, palettes |-> e.palettes,
                                      vram |-> e.vram, oam |-> e.oam]),
     !.lcd.win_y = IF e.lcd.lcdc.display /\ window_on_line(e, line_y)
                     THEN U8(@ + 1) ELSE @]

update_lcd_cycles(e0, cyc) ==
  LET e == [Note(e0, "lcd", cyc) EXCEPT !.lcd.cycles = U32(@ + cyc)]
      c == e.lcd.cycles
      w(max) == VALUE_WRAPPED(c, max)
      mode == e.lcd.stat.mode
      stat == e.lcd.stat
      \* the state after the switch, and new_line_edge
      sw ==
        CASE mode = LCD_MODE_USING_OAM ->
               IF w(USING_OAM_CYCLES).wrapped
                 THEN [e |-> [render_line(e, e.lcd.LY) EXCEPT
                                !.lcd.cycles = w(USING_OAM_CYCLES).v,
                                !.lcd.stat.mode = LCD_MODE_USING_OAM_VRAM],
                       edge |-> FALSE]
                 ELSE [e |-> e, edge |-> FALSE]
          [] mode = LCD_MODE_USING_OAM_VRAM ->
               IF w(USING_OAM_VRAM_CYCLES).wrapped
                 THEN LET e1 == [e EXCEPT
                                   !.lcd.cycles = w(USING_OAM_VRAM_CYCLES).v,
                                   !.lcd.stat.mode = LCD_MODE_HBLANK]
                      IN [e |-> IF stat.hblank_intr
                                  THEN RaiseIF(e1, INTERRUPT_LCD_STAT_MASK)
                                  ELSE e1,
                          edge |-> FALSE]
                 ELSE [e |-> e, edge |-> FALSE]
          [] mode = LCD_MODE_HBLANK ->
               IF w(HBLANK_CYCLES).wrapped
                 THEN LET ly == U8(e.lcd.LY + 1)
                          e1 == [e EXCEPT !.lcd.cycles = w(HBLANK_CYCLES).v,
                                          !.lcd.LY = ly]
                      IN IF ly = SCREEN_HEIGHT
                           THEN LET e2 == RaiseIF(
                                      [e1 EXCEPT
                                         !.lcd.stat.mode = LCD_MODE_VBLANK],
                                      INTERRUPT_VBLANK_MASK)
                                IN [e |-> IF stat.vblank_intr
                                            THEN RaiseIF(e2,
                                                   INTERRUPT_LCD_STAT_MASK)
                                            ELSE e2,
                                    edge |-> TRUE]
                           ELSE LET e2 == [e1 EXCEPT !.lcd.stat.mode =
                                             LCD_MODE_USING_OAM]
                                IN [e |-> IF stat.using_oam_intr
                                            THEN RaiseIF(e2,
                                                   INTERRUPT_LCD_STAT_MASK)
                                            ELSE e2,
                                    edge |-> TRUE]
                 ELSE [e |-> e, edge |-> FALSE]
          [] mode = LCD_MODE_VBLANK ->
               IF w(LINE_CYCLES).wrapped
                 THEN LET ly == U8(e.lcd.LY + 1)
                          e1 == [e EXCEPT !.lcd.cycles = w(LINE_CYCLES).v,
                                          !.lcd.LY = ly]
                      IN IF ly >= SCREEN_HEIGHT_WITH_VBLANK
                           THEN LET e2 == [e1 EXCEPT
                                      !.lcd.LY = ly - SCREEN_HEIGHT_WITH_VBLANK,
                                      !.lcd.win_y = 0,
                                      !.lcd.frame_WY = e1.lcd.WY,
                                      !.lcd.frame = U32(@ + 1),
                                      !.lcd.new_frame_edge = TRUE,
                                      !.lcd.stat.mode = LCD_MODE_USING_OAM]
                                IN [e |-> IF stat.using_oam_intr
                                            THEN RaiseIF(e2,
                                                   INTERRUPT_LCD_STAT_MASK)
                                            ELSE e2,
                                    edge |-> TRUE]
                           ELSE [e |-> e1, edge |-> TRUE]
                 ELSE [e |-> e, edge |-> FALSE]
  IN IF e.lcd.lcdc.display
       THEN IF sw.edge /\ stat.y_compare_intr /\ sw.e.lcd.LY = sw.e.lcd.LYC
              THEN RaiseIF(sw.e, INTERRUPT_LCD_STAT_MASK)
              ELSE sw.e
     ELSE IF w(LINE_CYCLES).wrapped
       THEN LET fly == U8(e.lcd.fake_LY + 1)
                e1 == [e EXCEPT !.lcd.cycles = w(LINE_CYCLES).v,
                                !.lcd.fake_LY = fly]
            IN IF fly >= SCREEN_HEIGHT_WITH_VBLANK
                 THEN render_line(
                        [e1 EXCEPT
                           !.lcd.fake_LY = fly - SCREEN_HEIGHT_WITH_VBLANK,
                           !.lcd.new_frame_edge = TRUE,
                           !.lcd.frame = U32(@ + 1)],
                        fly - SCREEN_HEIGHT_WITH_VBLANK)
               ELSE IF fly < SCREEN_HEIGHT
                 THEN render_line(e1, fly)
                 ELSE e1
     ELSE e

RECURSIVE timer_loop(_, _, _)
\* the loop of update_timer_cycles; i is its counter
timer_loop(e, i, cyc) ==
  IF i < cyc
    THEN LET e1 == IF e.timer.on /\ e.timer.tima_overflow
                     THEN RaiseIF([e EXCEPT !.timer.tima_overflow = FALSE,
                                            !.timer.TIMA = e.timer.TMA],
                                  INTERRUPT_TIMER_MASK)
                     ELSE e
         IN timer_loop(write_div_counter(e1, U16(e1.timer.div_counter + 4)),
                       i + 4, cyc)
    ELSE e

update_timer_cycles(e, cyc) == timer_loop(Note(e, "timer", cyc), 0, cyc)

\* a faulty variant: each output is written twice
write_sample_twice(e) == [e EXCEPT !.sound.position = @ + 4]

\* the two samples themselves are not kept, only the buffer position
write_sample(e) == [e EXCEPT !.sound.position = @ + 2]

RECURSIVE sound_off_loop(_, _, _)
sound_off_loop(e, i, cyc) ==
  IF i < cyc THEN sound_off_loop(write_sample(e), i + APU_CYCLES, cyc) ELSE e

update_channel_sweep(e, c) ==
  LET sweep == e.sound.sweep
      t == U8(sweep.timer - 1)
  IN IF ~sweep.enabled THEN e
     ELSE IF t # 0 THEN [e EXCEPT !.sound.sweep.timer = t]
     ELSE IF sweep.period = 0
       THEN [e EXCEPT !.sound.sweep.timer = SWEEP_MAX_PERIOD]
     ELSE
       Let(calculate_sweep_frequency([sweep EXCEPT !.timer = sweep.period]),
           LAMBDA r1 :
             IF r1.f > SOUND_MAX_FREQUENCY
               THEN [e EXCEPT !.sound.sweep = r1.sweep,
                              !.sound.channel[c].status = FALSE]
             ELSE
               Let(IF r1.sweep.shift # 0
                     THEN write_square_wave_period(
                            [e EXCEPT !.sound.sweep =
                                        [r1.sweep EXCEPT !.frequency = r1.f],
                                      !.sound.channel[c].frequency = r1.f],
                            c)
                     ELSE [e EXCEPT !.sound.sweep = r1.sweep],
                   LAMBDA e1 :
                     Let(calculate_sweep_frequency(e1.sound.sweep),
                         LAMBDA r2 :
                           [e1 EXCEPT !.sound.sweep = r2.sweep,
                                      !.sound.channel[c].status =
                                        IF r2.f > SOUND_MAX_FREQUENCY
                                          THEN FALSE ELSE @])))

\* faulty variant of update_channel_length: the counter runs whether or not
\* the length is enabled
update_channel_length_always(e, c) ==
  LET ch == Chan(e, c) IN
  IF ch.length > 0
    THEN [e EXCEPT !.sound.channel[c].length = ch.length - 1,
                   !.sound.channel[c].status =
                     IF ch.length - 1 = 0 THEN FALSE ELSE @]
    ELSE e

\* faulty variant of update_channel_length: a counter that reaches 0 leaves
\* the channel's status bit as it was
update_channel_length_keeps_status(e, c) ==
  LET ch == Chan(e, c) IN
  IF ch.length_enabled /\ ch.length > 0
    THEN [e EXCEPT !.sound.channel[c].length = ch.length - 1]
    ELSE e

update_channel_length(e, c) ==
  LET ch == Chan(e, c) IN
  IF ch.length_enabled /\ ch.length > 0
    THEN [e EXCEPT !.sound.channel[c].length = ch.length - 1,
                   !.sound.channel[c].status =
                     IF ch.length - 1 = 0 THEN FALSE ELSE @]
    ELSE e

update_channel_envelope(e, c) ==
  LET env == Chan(e, c).envelope IN
  IF env.period = 0
    THEN [e EXCEPT !.sound.channel[c].envelope.timer = ENVELOPE_MAX_PERIOD]
  ELSE IF ~env.automatic THEN e
  ELSE IF U32(env.timer - 1) # 0
    THEN [e EXCEPT !.sound.channel[c].envelope.timer = U32(env.timer - 1)]
  ELSE IF env.direction = ENVELOPE_ATTENUATE
    THEN IF env.volume > 0
           THEN [e EXCEPT !.sound.channel[c].envelope.timer = env.period,
                          !.sound.channel[c].envelope.volume = env.volume - 1]
           ELSE [e EXCEPT !.sound.channel[c].envelope.timer = env.period,
                          !.sound.channel[c].envelope.automatic = FALSE]
  ELSE IF env.volume < ENVELOPE_MAX_VOLUME
    THEN [e EXCEPT !.sound.channel[c].envelope.timer = env.period,
                   !.sound.channel[c].envelope.volume = env.volume + 1]
    ELSE [e EXCEPT !.sound.channel[c].envelope.timer = env.period,
                   !.sound.channel[c].envelope.automatic = FALSE]

\* the sample value returned is not kept
update_wave(e) ==
  LET wave == e.sound.wave
      cyc1 == U32(wave.cycles + wave.period)
      pos == VALUE_WRAPPED(U8(wave.position + 1), WAVE_SAMPLE_COUNT).v
      byte == Get(wave.ram, pos \div 2)
  IN IF wave.cycles <= APU_CYCLES
       THEN [e EXCEPT
               !.sound.wave.cycles = U32(cyc1 - APU_CYCLES),
               !.sound.wave.position = pos,
               !.sound.wave.sample =
                 << [time |-> U32(e.sound.cycles + cyc1),
                     position |-> pos,
                     byte |-> byte,
                     data |-> IF pos % 2 = 0 THEN byte \div 16
                              ELSE byte % 16],
                    wave.sample[1] >>]
       ELSE [e EXCEPT !.sound.wave.cycles = U32(@ - APU_CYCLES)]

\* x with its bit k replaced by b
WithBit(x, k, b) == x - ((x \div (2 ^ k)) % 2) * (2 ^ k) + b * (2 ^ k)

\* noise->cycles is a uint32_t that `cycles -= APU_CYCLES` takes below 0
\* while the clock shift is above NOISE_MAX_CLOCK_SHIFT; the values from
\* 2^31 up are kept as the negative numbers of the same 32 bits, so that
\* the unsigned `cycles <= APU_CYCLES` is 0 <= cycles <= APU_CYCLES
update_noise(e) ==
  LET noise == e.sound.noise
      bit == (noise.lfsr + (noise.lfsr \div 2)) % 2
      lfsr == IF noise.lfsr_width = LFSR_WIDTH_7
                THEN WithBit(noise.lfsr \div 2, 6, bit)
                ELSE WithBit(noise.lfsr \div 2, 14, bit)
  IN IF /\ noise.clock_shift <= NOISE_MAX_CLOCK_SHIFT
        /\ 0 <= noise.cycles /\ noise.cycles <= APU_CYCLES
       THEN [e EXCEPT !.sound.noise.cycles = @ + noise.period - APU_CYCLES,
                      !.sound.noise.lfsr = lfsr,
                      !.sound.noise.sample = 1 - (lfsr % 2)]
       ELSE [e EXCEPT !.sound.noise.cycles = @ - APU_CYCLES]

\* the channels' part of one APU tick; update_square_wave and the mixing
\* only produce the sample value, which is not part of this model
update_channel1(e, do_length, do_envelope, do_sweep) ==
  Let(IF Chan(e, CHANNEL1).status /\ do_sweep
        THEN update_channel_sweep(e, CHANNEL1) ELSE e,
      LAMBDA a :
        Let(IF do_length THEN update_channel_length(a, CHANNEL1) ELSE a,
            LAMBDA b :
              IF Chan(b, CHANNEL1).status /\ do_envelope
                THEN update_channel_envelope(b, CHANNEL1) ELSE b))

update_channel2(e, do_length, do_envelope) ==
  Let(IF do_length THEN update_channel_length(e, CHANNEL2) ELSE e,
      LAMBDA b :
        IF Chan(b, CHANNEL2).status /\ do_envelope
          THEN update_channel_envelope(b, CHANNEL2) ELSE b)

update_channel3(e, do_length) ==
  Let(IF Chan(e, CHANNEL3).status THEN update_wave(e) ELSE e,
      LAMBDA a :
        IF do_length THEN update_channel_length(a, CHANNEL3) ELSE a)

update_channel4(e, do_length, do_envelope) ==
  Let(IF do_length THEN update_channel_length(e, CHANNEL4) ELSE e,
      LAMBDA b :
        IF Chan(b, CHANNEL4).status
          THEN Let(update_noise(b),
                   LAMBDA n :
                     IF do_envelope
                       THEN update_channel_envelope(n, CHANNEL4) ELSE n)
          ELSE b)

\* faulty variant of sequencer_step: the sweep is clocked with the envelopes
sequencer_step_sweep_late(frame) ==
  [do_length |-> frame \in {0, 2, 4, 6},
   do_sweep |-> frame = 7,
   do_envelope |-> frame = 7]

\* the switch of update_sound_cycles on the step the sequencer has reached
sequencer_step(frame) ==
  [do_length |-> frame \in {0, 2, 4, 6},
   do_sweep |-> frame \in {2, 6},
   do_envelope |-> frame = 7]

no_step == [do_length |-> FALSE, do_sweep |-> FALSE, do_envelope |-> FALSE]

\* one APU tick: the frame sequencer, the channels, then one mixed sample
sound_on_tick(e) ==
  LET fc == e.sound.frame_cycles + APU_CYCLES
      e1 == [e EXCEPT !.sound.cycles = U32(@ + APU_CYCLES),
                      !.sound.frame_cycles =
                        IF fc >= FRAME_SEQUENCER_CYCLES
                          THEN fc - FRAME_SEQUENCER_CYCLES ELSE fc,
                      !.sound.frame =
                        IF fc >= FRAME_SEQUENCER_CYCLES
                          THEN IF @ + 1 >= FRAME_SEQUENCER_COUNT
                                 THEN @ + 1 - FRAME_SEQUENCER_COUNT
                                 ELSE @ + 1
                          ELSE @]
  IN Let(e1,
         LAMBDA a :
           Let(IF fc >= FRAME_SEQUENCER_CYCLES
                 THEN sequencer_step(a.sound.frame) ELSE no_step,
               LAMBDA do :
                 Let(update_channel1(a, do.do_length, do.do_envelope,
                                     do.do_sweep),
                     LAMBDA c1 :
                       Let(update_channel2(c1, do.do_length, do.do_envelope),
                           LAMBDA c2 :
                             Let(update_channel3(c2, do.do_length),
                                 LAMBDA c3 :
                                   write_sample(
                                     update_channel4(c3, do.do_length,
                                                     do.do_envelope)))))))

RECURSIVE sound_on_loop(_, _, _)
sound_on_loop(e, i, cyc) ==
  IF i < cyc
    THEN Let(sound_on_tick(e),
             LAMBDA e1 : sound_on_loop(e1, i + APU_CYCLES, cyc))
    ELSE e

update_sound_cycles(e0, cyc) ==
  LET e == Note(e0, "apu", cyc) IN
  IF ~e.sound.enabled THEN sound_off_loop(e, 0, cyc)
  ELSE sound_on_loop([e EXCEPT !.sound.cycles = e.cycles], 0, cyc)

\* faulty variant of update_cycles: the DMA unit is not advanced
update_cycles_no_dma(e, cyc) ==
  LET e2 == update_lcd_cycles(e, cyc)
      e3 == update_timer_cycles(e2, cyc)
      e4 == update_sound_cycles(e3, cyc)
  IN [e4 EXCEPT !.cycles = U32(@ + cyc)]

update_cycles(e, cyc) ==
  LET e1 == update_dma_cycles(e, cyc)
      e2 == update_lcd_cycles(e1, cyc)
      e3 == update_timer_cycles(e2, cyc)
      e4 == update_sound_cycles(e3, cyc)
  IN [e4 EXCEPT !.cycles = U32(@ + cyc)]

(***************************************************************************)
(* The CPU.  The opcodes of the model are the one-byte instructions        *)
(*   00 NOP      10 STOP (NI)   34 INC (HL)   3C INC A     76 HALT         *)
(*   77 LD (HL),A   7E LD A,(HL)   C0 RET NZ   D3 (INVALID)   D9 RETI     *)
(*   F3 DI       FB EI          FF RST 38                                  *)
(* and, for the programs of SpecProg,                                      *)
(*   31 LD SP,nn   AF XOR A   E0 LDH (n),A   F1 POP AF   F5 PUSH AF        *)
(* The registers B, C, D and E are used by none of them and are left out.  *)
(***************************************************************************)
Opcodes == {0, 16, 52, 60, 118, 119, 126, 192, 211, 217, 243, 251, 255}

\* UNREACHABLE(...): the process exits
Unreachable(e) == [e EXCEPT !.exited = TRUE]

\* READ8 / WRITE8 as used by the opcode macros
READ8(e, addr) == read_u8(e, addr)
READ16(e, addr) == read_u16(e, addr)
WRITE8(e, addr, v) == Access(write_u8(e, addr, v), "wr")
WRITE16(e, addr, v) == Access(write_u16(e, addr, v), "wr")

\* INC_FLAGS: FZ_EQ0(u); FN = 0; FH = MASK8(u) == 0
INC_FLAGS(e, u) ==
  [e EXCEPT !.reg.F.Z = (u = 0), !.reg.F.N = FALSE,
            !.reg.F.H = (u % 16 = 0)]

\* CALL(X): RSP -= 2; WRITE16(RSP, new_pc); new_pc = X
CALL(e, new_pc, x) ==
  LET sp == U16(e.reg.SP - 2) IN
  [e |-> WRITE16([e EXCEPT !.reg.SP = sp], sp, new_pc), new_pc |-> x]

\* RET: new_pc = READ16(RSP); RSP += 2
RET(e) ==
  [e |-> [Access(e, "rd") EXCEPT !.reg.SP = U16(@ + 2)],
   new_pc |-> READ16(e, e.reg.SP)]

\* faulty variant of HALT: halt_DI is never set
HALT_no_halt_DI(e) == [e EXCEPT !.interrupts.halt = TRUE]

\* HALT: halt = TRUE; halt_DI = (IME == 0)
HALT(e) ==
  [e EXCEPT !.interrupts.halt = TRUE,
            !.interrupts.halt_DI = ~e.interrupts.IME]

\* DI: IME = enable = FALSE
DI(e) ==
  [e EXCEPT !.interrupts.IME = FALSE, !.interrupts.enable = FALSE]

\* faulty variant of EI: IME is set at once
EI_immediate(e) == [e EXCEPT !.interrupts.IME = TRUE]

\* EI: enable = TRUE
EI(e) == [e EXCEPT !.interrupts.enable = TRUE]

\* (int8_t) of a byte
S8(x) == IF x >= 128 THEN x - 256 ELSE x

\* READ_N and READ_NN: the operand at RPC + 1
READ_N(e) == READ8(e, U16(e.reg.PC + 1))
READ_NN(e) == READ16(e, U16(e.reg.PC + 1))

\* JR_F_N(COND): if (COND) { JR_N; CYCLES(4); }
JR_F_N(e, cond, new_pc) ==
  IF cond
    THEN [e |-> update_cycles(Access(e, "rd"), 4),
          new_pc |-> U16(new_pc + S8(READ_N(e)))]
    ELSE [e |-> e, new_pc |-> new_pc]

\* faulty variant of JP_F_NN: a taken jump charges nothing more
JP_F_NN_no_penalty(e, cond, new_pc) ==
  IF cond
    THEN [e |-> Access(e, "rd"), new_pc |-> READ_NN(e)]
    ELSE [e |-> e, new_pc |-> new_pc]

\* JP_F_NN(COND): if (COND) { JP_NN; CYCLES(4); }
JP_F_NN(e, cond, new_pc) ==
  IF cond
    THEN [e |-> update_cycles(Access(e, "rd"), 4), new_pc |-> READ_NN(e)]
    ELSE [e |-> e, new_pc |-> new_pc]

\* CALL_F_NN(COND): if (COND) { CALL_NN; CYCLES(12); }; the operand of
\* CALL(READ_NN) is read after the return address is pushed
CALL_F_NN(e, cond, new_pc) ==
  IF cond
    THEN Let(CALL(e, new_pc, 0),
             LAMBDA r : [e |-> update_cycles(Access(r.e, "rd"), 12),
                         new_pc |-> READ_NN(r.e)])
    ELSE [e |-> e, new_pc |-> new_pc]

\* RET_F(COND): if (COND) { RET; CYCLES(12); }
RET_F(e, cond, new_pc) ==
  IF cond
    THEN Let(RET(e),
             LAMBDA r : [e |-> update_cycles(r.e, 12), new_pc |-> r.new_pc])
    ELSE [e |-> e, new_pc |-> new_pc]

\* faulty variant of get_f_reg: the carry flag is left out
get_f_reg_no_carry(r) ==
  ENCODE(B2N(r.F.Z), 7, 7) + ENCODE(B2N(r.F.N), 6, 6)
    + ENCODE(B2N(r.F.H), 5, 5)

\* READ_REG of the four flags; r is e->reg
get_f_reg(r) ==
  ENCODE(B2N(r.F.Z), 7, 7) + ENCODE(B2N(r.F.N), 6, 6)
    + ENCODE(B2N(r.F.H), 5, 5) + ENCODE(B2N(r.F.C), 4, 4)

get_af_reg(r) == r.A * 256 + get_f_reg(r)

set_af_reg(r, af) ==
  [r EXCEPT !.A = af \div 256,
            !.F = [Z |-> DECODE(af, 7, 7) = 1, N |-> DECODE(af, 6, 6) = 1,
                   H |-> DECODE(af, 5, 5) = 1, C |-> DECODE(af, 4, 4) = 1]]

\* faulty variant of XOR_R_A: only the flags are set
XOR_R_A_flags_only(e) ==
  [e EXCEPT !.reg.F = [Z |-> (BitXor(e.reg.A, e.reg.A) = 0), N |-> FALSE,
                       H |-> FALSE, C |-> FALSE]]

\* LD_RR_NN(SP): REG(SP) = READ_NN
LD_RR_NN_SP(e) == [Access(e, "rd") EXCEPT !.reg.SP = READ_NN(e)]

\* XOR_R(A): RA ^= REG(A); FZ_EQ0(RA); FN = FH = FC = 0
XOR_R_A(e) ==
  [e EXCEPT !.reg.A = BitXor(e.reg.A, e.reg.A),
            !.reg.F = [Z |-> (BitXor(e.reg.A, e.reg.A) = 0), N |-> FALSE,
                       H |-> FALSE, C |-> FALSE]]

\* LD_MFF00_N_R(A): WRITE8(0xFF00 + READ_N, RA)
LD_MFF00_N_R(e) == WRITE8(Access(e, "rd"), 65280 + READ_N(e), e.reg.A)

\* POP_AF: set_af_reg(&e->reg, READ16(RSP)); RSP += 2
POP_AF(e) ==
  [Access(e, "rd") EXCEPT
     !.reg = [set_af_reg(e.reg, READ16(e, e.reg.SP)) EXCEPT
                !.SP = U16(e.reg.SP + 2)]]

\* PUSH_AF: RSP -= 2; WRITE16(RSP, get_af_reg(&e->reg))
PUSH_AF(e) ==
  WRITE16([e EXCEPT !.reg.SP = U16(@ - 2)], U16(e.reg.SP - 2),
          get_af_reg(e.reg))

\* the switch of execute_instruction: the state and new_pc after the opcode
exec_opcode(e, opcode, new_pc) ==
  CASE opcode = 0 -> [e |-> e, new_pc |-> new_pc]
    [] opcode = 16 -> [e |-> Unreachable(e), new_pc |-> new_pc]
    [] opcode = 32 -> JR_F_N(e, ~e.reg.F.Z, new_pc)
    [] opcode = 40 -> JR_F_N(e, e.reg.F.Z, new_pc)
    [] opcode = 49 -> [e |-> LD_RR_NN_SP(e), new_pc |-> new_pc]
    [] opcode = 52 ->
         \* INC_MR(HL): u = READMR(HL); u++; CYCLES(4); WRITEMR(HL, u)
         Let(U8(READ8(e, e.reg.HL) + 1),
             LAMBDA u :
               [e |-> INC_FLAGS(WRITE8(update_cycles(Access(e, "rd"), 4),
                                       e.reg.HL, u), u),
                new_pc |-> new_pc])
    [] opcode = 60 ->
         LET u == U8(e.reg.A + 1) IN
         [e |-> INC_FLAGS([e EXCEPT !.reg.A = u], u), new_pc |-> new_pc]
    [] opcode = 118 -> [e |-> HALT(e), new_pc |-> new_pc]
    [] opcode = 119 ->
         [e |-> WRITE8(e, e.reg.HL, e.reg.A), new_pc |-> new_pc]
    [] opcode = 126 ->
         [e |-> [Access(e, "rd") EXCEPT !.reg.A = READ8(e, e.reg.HL)],
          new_pc |-> new_pc]
    [] opcode = 175 -> [e |-> XOR_R_A(e), new_pc |-> new_pc]
    [] opcode = 192 -> RET_F(e, ~e.reg.F.Z, new_pc)
    [] opcode = 194 -> JP_F_NN(e, ~e.reg.F.Z, new_pc)
    [] opcode = 196 -> CALL_F_NN(e, ~e.reg.F.Z, new_pc)
    [] opcode = 200 -> RET_F(e, e.reg.F.Z, new_pc)
    [] opcode = 202 -> JP_F_NN(e, e.reg.F.Z, new_pc)
    [] opcode = 204 -> CALL_F_NN(e, e.reg.F.Z, new_pc)
    [] opcode = 211 -> [e |-> Unreachable(e), new_pc |-> new_pc]
    [] opcode = 217 ->
         \* RETI: enable = FALSE; IME = TRUE; RET
         RET([e EXCEPT !.interrupts.enable = FALSE,
                       !.interrupts.IME = TRUE])
    [] opcode = 224 -> [e |-> LD_MFF00_N_R(e), new_pc |-> new_pc]
    [] opcode = 241 -> [e |-> POP_AF(e), new_pc |-> new_pc]
    [] opcode = 243 -> [e |-> DI(e), new_pc |-> new_pc]
    [] opcode = 245 -> [e |-> PUSH_AF(e), new_pc |-> new_pc]
    [] opcode = 251 -> [e |-> EI(e), new_pc |-> new_pc]
    [] opcode = 255 -> CALL(e, new_pc, 56)

\* faulty variant of fetch_and_execute: the opcode takes effect before its
\* cycles are charged
fetch_and_execute_effect_first(e1) ==
  Let(read_u8(e1, e1.reg.PC),
      LAMBDA opcode :
        LET e2 == IF e1.interrupts.halt_DI
                    THEN [e1 EXCEPT !.reg.PC = U16(@ - 1),
                                    !.interrupts.halt_DI = FALSE]
                    ELSE e1
            new_pc == U16(e2.reg.PC + s_opcode_bytes[opcode + 1])
        IN Let(exec_opcode([Access(e2, "fetch") EXCEPT !.op = opcode],
                           opcode, new_pc),
               LAMBDA r :
                 IF r.e.exited THEN r.e
                 ELSE [update_cycles(r.e, s_opcode_cycles[opcode + 1])
                         EXCEPT !.reg.PC = r.new_pc]))

\* the instruction at PC of a CPU that is not halted
fetch_and_execute(e1) ==
  Let(read_u8(e1, e1.reg.PC),
      LAMBDA opcode :
        LET e2 == IF e1.interrupts.halt_DI
                    THEN [e1 EXCEPT !.reg.PC = U16(@ - 1),
                                    !.interrupts.halt_DI = FALSE]
                    ELSE e1
            new_pc == U16(e2.reg.PC + s_opcode_bytes[opcode + 1])
            e3 == update_cycles([Access(e2, "fetch") EXCEPT !.op = opcode],
                                s_opcode_cycles[opcode + 1])
        IN Let(exec_opcode(e3, opcode, new_pc),
               LAMBDA r : IF r.e.exited THEN r.e
                          ELSE [r.e EXCEPT !.reg.PC = r.new_pc]))

execute_instruction(e) ==
  LET e1 == IF e.interrupts.enable
              THEN [e EXCEPT !.interrupts.enable = FALSE,
                             !.interrupts.IME = TRUE]
              ELSE e
  IN IF e1.interrupts.halt THEN update_cycles(e1, 4)
     ELSE fetch_and_execute(e1)

(***************************************************************************)
(* The interrupt controller.                                               *)
(***************************************************************************)
\* faulty variant of select_interrupt: the priority runs from joypad down
select_interrupt_reversed(pending) ==
  LET has(m) == BitAnd(pending, m) # 0 IN
  IF has(INTERRUPT_JOYPAD_MASK)
    THEN [vector |-> 96, mask |-> INTERRUPT_JOYPAD_MASK]
  ELSE IF has(INTERRUPT_SERIAL_MASK)
    THEN [vector |-> 88, mask |-> INTERRUPT_SERIAL_MASK]
  ELSE IF has(INTERRUPT_TIMER_MASK)
    THEN [vector |-> 80, mask |-> INTERRUPT_TIMER_MASK]
  ELSE IF has(INTERRUPT_LCD_STAT_MASK)
    THEN [vector |-> 72, mask |-> INTERRUPT_LCD_STAT_MASK]
  ELSE IF has(INTERRUPT_VBLANK_MASK)
    THEN [vector |-> 64, mask |-> INTERRUPT_VBLANK_MASK]
  ELSE [vector |-> 0, mask |-> 0]

\* the priority chain of handle_interrupts: the vector and mask chosen for
\* the pending set, mask 0 when no known source is pending
select_interrupt(pending) ==
  LET has(m) == BitAnd(pending, m) # 0 IN
  IF has(INTERRUPT_VBLANK_MASK)
    THEN [vector |-> 64, mask |-> INTERRUPT_VBLANK_MASK]
  ELSE IF has(INTERRUPT_LCD_STAT_MASK)
    THEN [vector |-> 72, mask |-> INTERRUPT_LCD_STAT_MASK]
  ELSE IF has(INTERRUPT_TIMER_MASK)
    THEN [vector |-> 80, mask |-> INTERRUPT_TIMER_MASK]
  ELSE IF has(INTERRUPT_SERIAL_MASK)
    THEN [vector |-> 88, mask |-> INTERRUPT_SERIAL_MASK]
  ELSE IF has(INTERRUPT_JOYPAD_MASK)
    THEN [vector |-> 96, mask |-> INTERRUPT_JOYPAD_MASK]
  ELSE [vector |-> 0, mask |-> 0]

\* faulty variant of handle_interrupts: a halted CPU takes the interrupt
\* whether or not it was halted with interrupts disabled
handle_interrupts_ignores_halt_DI(e) ==
  IF ~(e.interrupts.IME \/ e.interrupts.halt) THEN e
  ELSE
    LET pending == BitAnd(e.interrupts.IF, e.interrupts.IE)
        sel == select_interrupt(pending)
    IN IF pending = 0 THEN e
       ELSE IF sel.mask = 0 THEN e
       ELSE
         LET e1 ==
               Let(CALL([Access(e, "dispatch") EXCEPT
                           !.interrupts.IF =
                             BitAnd(@, BitNot8(sel.mask))],
                        e.reg.PC, sel.vector),
                   LAMBDA c : [c.e EXCEPT !.reg.PC = c.new_pc,
                                          !.interrupts.IME = FALSE])
         IN [e1 EXCEPT !.interrupts.halt = FALSE]

handle_interrupts(e) ==
  IF ~(e.interrupts.IME \/ e.interrupts.halt) THEN e
  ELSE
    LET pending == BitAnd(e.interrupts.IF, e.interrupts.IE)
        sel == select_interrupt(pending)
    IN IF pending = 0 THEN e
       ELSE IF sel.mask = 0 THEN e
       ELSE
         LET e1 ==
               IF e.interrupts.halt_DI THEN e
               ELSE Let(CALL([Access(e, "dispatch") EXCEPT
                                !.interrupts.IF =
                                  BitAnd(@, BitNot8(sel.mask))],
                             e.reg.PC, sel.vector),
                        LAMBDA c : [c.e EXCEPT !.reg.PC = c.new_pc,
                                               !.interrupts.IME = FALSE])
         IN [e1 EXCEPT !.interrupts.halt = FALSE]

(***************************************************************************)
(* Observation of a step: what the CPU looks like before the step, after   *)
(* execute_instruction and after handle_interrupts.                        *)
(***************************************************************************)
Snap(e) ==
  WithIF([PC |-> e.reg.PC, SP |-> e.reg.SP, A |-> e.reg.A,
          IME |-> e.interrupts.IME, IE |-> e.interrupts.IE,
          enable |-> e.interrupts.enable, halt |-> e.interrupts.halt,
          halt_DI |-> e.interrupts.halt_DI, cycles |-> e.cycles,
          div |-> e.timer.div_counter,
          samples |-> e.sound.position, edge |-> e.lcd.new_frame_edge,
          dma |-> e.dma.active],
         e.interrupts.IF)

\* print_emulator_info only prints
step_emulator(e) ==
  Let(execute_instruction(e),
      LAMBDA m :
        IF m.exited THEN [m EXCEPT !.mid = Snap(m), !.midchg = m.chg]
        ELSE handle_interrupts([m EXCEPT !.mid = Snap(m),
                                         !.midchg = m.chg]))

(***************************************************************************)
(* Construction.  init_emulator zeroes the emulator, sets the registers    *)
(* and performs the power-up register writes, those of the sound registers *)
(* first.                                                                  *)
(***************************************************************************)
ZERO_MEMORY ==
  [reg |-> [A |-> 0, F |-> [Z |-> FALSE, N |-> FALSE, H |-> FALSE,
                            C |-> FALSE],
            HL |-> 0, SP |-> 0, PC |-> 0],
   interrupts |-> WithIF([IME |-> FALSE, IE |-> 0, enable |-> FALSE,
                          halt |-> FALSE, halt_DI |-> FALSE], 0),
   timer |-> [TIMA |-> 0, TMA |-> 0, clock_select |-> 0, div_counter |-> 0,
              tima_overflow |-> FALSE, on |-> FALSE],
   lcd |-> [lcdc |-> [display |-> FALSE, window_tile_map_select |-> 0,
                      window_display |-> 0, bg_tile_data_select |-> 0,
                      bg_tile_map_select |-> 0, obj_size |-> 0,
                      obj_display |-> 0, bg_display |-> 0],
            stat |-> [y_compare_intr |-> FALSE, using_oam_intr |-> FALSE,
                      vblank_intr |-> FALSE, hblank_intr |-> FALSE,
                      mode |-> 0],
            SCY |-> 0, SCX |-> 0, LY |-> 0, LYC |-> 0, WY |-> 0, WX |-> 0,
            cycles |-> 0, fake_LY |-> 0, win_y |-> 0, frame_WY |-> 0,
            frame |-> 0, new_frame_edge |-> FALSE],
   dma |-> [active |-> FALSE, source |-> [type |-> "ROM", addr |-> 0],
            addr_offset |-> 0, cycles |-> 0],
   sound |-> [enabled |-> FALSE, cycles |-> 0, frame_cycles |-> 0,
              frame |-> 0, position |-> 0,
              so2_volume |-> 0, so1_volume |-> 0,
              so2_output |-> [i \in 0 .. SOUND_COUNT - 1 |-> 0],
              so1_output |-> [i \in 0 .. SOUND_COUNT - 1 |-> 0],
              sweep |-> [period |-> 0, direction |-> 0, shift |-> 0,
                         frequency |-> 0, timer |-> 0, enabled |-> FALSE,
                         calculated_subtract |-> FALSE],
              wave |-> [volume |-> 0, ram |-> << >>,
                        sample |-> [i \in 1 .. 2 |->
                                      [time |-> 0, position |-> 0,
                                       byte |-> 0, data |-> 0]],
                        period |-> 0, position |-> 0, cycles |-> 0,
                        playing |-> FALSE],
              noise |-> [clock_shift |-> 0, lfsr_width |-> 0, divisor |-> 0,
                         sample |-> 0, lfsr |-> 0, period |-> 0,
                         cycles |-> 0],
              channel |-> [c \in 0 .. CHANNEL_COUNT - 1 |->
                             [square_wave |-> [duty |-> 0, period |-> 0],
                              envelope |-> [initial_volume |-> 0,
                                            direction |-> 0, period |-> 0,
                                            volume |-> 0, timer |-> 0,
                                            automatic |-> FALSE],
                              frequency |-> 0, length |-> 0,
                              length_enabled |-> FALSE,
                              dac_enabled |-> FALSE, status |-> FALSE]]],
   joypad |-> [joypad_select |-> 0],
   serial |-> [transfer_start |-> 0, shift_clock |-> 0],
   palettes |-> [bgp |-> <<0, 0, 0, 0>>, obp0 |-> <<0, 0, 0, 0>>,
                 obp1 |-> <<0, 0, 0, 0>>],
   cycles |-> 0, ram |-> << >>, hram |-> << >>, oam |-> << >>,
   vram |-> << >>, rom |-> [data |-> << >>, size |-> 0],
   memory_map |-> [rom_bank |-> 0, ext_ram_bank |-> 0,
                   ext_ram_enabled |-> FALSE,
                   mbc1 |-> [byte_2000_3fff |-> 0, byte_4000_5fff |-> 0,
                             bank_mode |-> 0],
                   read_external_ram |-> "NULL",
                   write_external_ram |-> "NULL", write_rom |-> "NULL"],
   external_ram |-> [data |-> << >>, size |-> 0,
                     battery_type |-> "NO_BATTERY"],
   frame_buffer |-> << >>,
   exited |-> FALSE, chg |-> NoCharge, log |-> << >>,
   op |-> 0, mid |-> << >>, midchg |-> NoCharge]

\* a memory map for every controller: faulty variant of init_memory_map
init_memory_map_any_mbc(e, rom_info) ==
  [result |-> "OK",
   e |-> [e EXCEPT !.memory_map.rom_bank = 1,
                   !.memory_map.read_external_ram = "dummy_read_external_ram",
                   !.memory_map.write_external_ram =
                     "dummy_write_external_ram",
                   !.memory_map.write_rom = "rom_only_write_rom"]]

init_memory_map(e, rom_info) ==
  LET with_ram == s_external_ram_type(rom_info.cartridge_type) = "WITH_RAM"
      mbc == s_mbc_type(rom_info.cartridge_type)
      supported == mbc \in {"NO_MBC", "MBC1", "MBC2", "MBC3"}
  IN [result |-> IF supported THEN "OK" ELSE "ERROR",
      e |-> [e EXCEPT
               !.memory_map =
                 [rom_bank |-> 1, ext_ram_bank |-> 0,
                  ext_ram_enabled |-> FALSE,
                  mbc1 |-> [byte_2000_3fff |-> 0, byte_4000_5fff |-> 0,
                            bank_mode |-> BANK_MODE_ROM],
                  read_external_ram |->
                    IF mbc = "MBC2" THEN "mbc2_read_ram"
                    ELSE IF with_ram THEN "gb_read_external_ram"
                    ELSE "dummy_read_external_ram",
                  write_external_ram |->
                    IF mbc = "MBC2" THEN "mbc2_write_ram"
                    ELSE IF with_ram THEN "gb_write_external_ram"
                    ELSE "dummy_write_external_ram",
                  write_rom |->
                    CASE mbc = "NO_MBC" -> "rom_only_write_rom"
                      [] mbc = "MBC1" -> "mbc1_write_rom"
                      [] mbc = "MBC2" -> "mbc2_write_rom"
                      [] mbc = "MBC3" -> "mbc3_write_rom"
                      [] OTHER -> "NULL"],
               !.external_ram.size =
                 IF mbc = "MBC2" THEN MBC2_RAM_SIZE
                 ELSE IF with_ram THEN s_ram_bank_size(rom_info.ram_size)
                 ELSE 0,
               !.external_ram.battery_type =
                 IF supported THEN s_battery_type(rom_info.cartridge_type)
                 ELSE @]]

\* the Result of init_emulator
init_emulator_result(rom_data) ==
  IF get_rom_info(rom_data).result = "ERROR" THEN "ERROR"
  ELSE init_memory_map([ZERO_MEMORY EXCEPT !.rom = rom_data],
                       get_rom_info(rom_data).rom_info).result

\* a 32 KiB image with the bytes of data, zero elsewhere
RomData(data) == [data |-> data, size |-> RomSize]

init_emulator(rom_data) ==
  LET zeroed == [ZERO_MEMORY EXCEPT !.rom = rom_data]
      mapped == init_memory_map(zeroed, get_rom_info(rom_data).rom_info)
      e0 == [mapped.e EXCEPT
               !.reg = [A |-> 1,
                        F |-> [Z |-> TRUE, N |-> FALSE, H |-> TRUE,
                               C |-> TRUE],
                        HL |-> 333, SP |-> 65534, PC |-> EntryPC],
               !.interrupts.IME = TRUE]
      a1 == write_apu_seq(e0, << << APU_NR52_ADDR, 241 >>,
                                 << APU_NR11_ADDR, 128 >>,
                                 << APU_NR12_ADDR, 243 >>,
                                 << APU_NR14_ADDR, 128 >>,
                                 << APU_NR50_ADDR, 119 >>,
                                 << APU_NR51_ADDR, 243 >> >>)
      a2 == [a1 EXCEPT !.sound.channel[CHANNEL1].envelope.volume = 0]
      e1 == write_io(a2, IO_LCDC_ADDR, 145)
      e2 == write_io(write_io(write_io(e1, IO_SCY_ADDR, 0),
                              IO_SCX_ADDR, 0), IO_LYC_ADDR, 0)
      e3 == write_io(write_io(write_io(e2, IO_BGP_ADDR, 252),
                              IO_OBP0_ADDR, 255), IO_OBP1_ADDR, 255)
  IN IF get_rom_info(rom_data).result = "ERROR" THEN zeroed
     ELSE IF mapped.result = "ERROR" THEN mapped.e
     ELSE write_io(write_io(e3, IO_IF_ADDR, 1), IO_IE_ADDR, 0)

(***************************************************************************)
(* The ROM: a program of two opcodes at the entry point; every other cell  *)
(* holds 00 (NOP).                                                         *)
(***************************************************************************)
Programs ==
  { (EntryPC :> b0) @@ ((EntryPC + 1) :> b1) : b0 \in Opcodes, b1 \in Opcodes }

(***************************************************************************)
(* Later moments of a run.  Besides the state right after construction,    *)
(* the program is started from states that earlier code of a ROM leaves    *)
(* behind before it jumps to the entry point: interrupt registers written, *)
(* the timer started, HL and A loaded, and the PPU further along its       *)
(* frame.                                                                  *)
(***************************************************************************)
Sc(ime, ie, if, env, hl, a) ==
  [ime |-> ime, ie |-> ie, if |-> if, env |-> env, hl |-> hl, a |-> a]

Scenarios ==
  { Sc(TRUE, 0, 1, "boot", 333, 1),
    Sc(FALSE, 255, 1, "timer", 65284, 1),
    Sc(FALSE, 4, 0, "timer", 65408, 1),
    Sc(TRUE, 4, 0, "timer", 65285, 1),
    Sc(TRUE, 255, 31, "boot", 333, 1),
    Sc(TRUE, 30, 31, "boot", 333, 1),
    Sc(TRUE, 28, 31, "boot", 333, 1),
    Sc(TRUE, 24, 31, "boot", 333, 1),
    Sc(TRUE, 16, 31, "boot", 333, 1),
    Sc(TRUE, 255, 250, "boot", 65345, 64),
    Sc(TRUE, 224, 224, "boot", 333, 1),
    Sc(FALSE, 224, 224, "boot", 333, 1),
    Sc(FALSE, 1, 0, "vblank", 65295, 4),
    Sc(TRUE, 1, 0, "vblank", 65295, 4),
    Sc(FALSE, 0, 0, "frame", 65344, 17),
    Sc(TRUE, 4, 0, "boot", 65295, 4),
    Sc(TRUE, 0, 1, "boot", 65350, 192),
    Sc(FALSE, 255, 1, "boot", 49152, 255),
    Sc(TRUE, 255, 0, "frame", 65535, 31),
    Sc(FALSE, 0, 0, "frame16", 65344, 17),
    Sc(FALSE, 0, 0, "frame20", 65344, 17),
    Sc(FALSE, 0, 0, "off16", 65344, 17),
    Sc(FALSE, 0, 0, "off20", 65344, 17) }

\* line 153 of a frame with the display on, n cycles before the frame ends
FrameEnd(e, n) ==
  [e EXCEPT !.lcd.stat.mode = LCD_MODE_VBLANK,
            !.lcd.LY = SCREEN_HEIGHT_WITH_VBLANK - 1,
            !.lcd.cycles = LINE_CYCLES - n,
            !.cycles = FRAME_CYCLES - n]

\* the same moment of a frame that began when LCDC switched the display off
FrameEndOff(e, n) ==
  [write_io(e, IO_LCDC_ADDR, 17) EXCEPT
     !.lcd.fake_LY = SCREEN_HEIGHT_WITH_VBLANK - 1,
     !.lcd.cycles = LINE_CYCLES - n,
     !.cycles = FRAME_CYCLES - n]

\* the state of a scenario, reached from the constructed state
Setup(e, sc) ==
  LET e1 == [e EXCEPT !.interrupts.IME = sc.ime,
                      !.interrupts.IE = sc.ie,
                      !.interrupts.IF = sc.if,
                      !.reg.HL = sc.hl, !.reg.A = sc.a]
  IN CASE sc.env = "boot" -> e1
       [] sc.env = "timer" ->
            \* TAC = 5, TIMA = FF, TMA = FE; DIV is about to count up
            [e1 EXCEPT !.timer = [TIMA |-> 255, TMA |-> 254,
                                  clock_select |-> 1, div_counter |-> 248,
                                  tima_overflow |-> FALSE, on |-> TRUE]]
       [] sc.env = "vblank" ->
            \* line 143, 8 cycles before the end of its HBLANK
            [e1 EXCEPT !.lcd.stat.mode = LCD_MODE_HBLANK,
                       !.lcd.LY = SCREEN_HEIGHT - 1,
                       !.lcd.cycles = HBLANK_CYCLES - 8]
       [] sc.env = "frame" ->
            \* line 153, 8 cycles before the end of the frame
            [e1 EXCEPT !.lcd.stat.mode = LCD_MODE_VBLANK,
                       !.lcd.LY = SCREEN_HEIGHT_WITH_VBLANK - 1,
                       !.lcd.cycles = LINE_CYCLES - 8,
                       !.cycles = FRAME_CYCLES - 8]
       [] sc.env = "frame16" -> FrameEnd(e1, 16)
       [] sc.env = "frame20" -> FrameEnd(e1, 20)
       [] sc.env = "off16" -> FrameEndOff(e1, 16)
       [] sc.env = "off20" -> FrameEndOff(e1, 20)

\* the record of the step from e0 to e1
StepRecord(e0, e1) ==
  [valid |-> TRUE,
   idle |-> e0.interrupts.halt,
   at |-> e0.reg.PC,
   op |-> e1.op,
   hl |-> e0.reg.HL,
   pre |-> Snap(e0), mid |-> e1.mid, post |-> Snap(e1),
   midchg |-> e1.midchg, chg |-> e1.chg, log |-> e1.log]

NoStep(e0) ==
  [valid |-> FALSE, idle |-> FALSE, at |-> e0.reg.PC, op |-> 0,
   hl |-> e0.reg.HL, pre |-> Snap(e0), mid |-> Snap(e0), post |-> Snap(e0),
   midchg |-> NoCharge, chg |-> NoCharge, log |-> << >>]

\* the last n elements of a sequence
LastN(s, n) == IF Len(s) <= n THEN s ELSE SubSeq(s, Len(s) - n + 1, Len(s))

HistLen == 3

(***************************************************************************)
(* The driver: main's loop around run_emulator_until_event.                *)
(*   drv.pc = "call": main is about to call, with last_event = drv.event   *)
(*   drv.pc = "loop": inside the while loop, at its head                   *)
(*   drv.pc = "exit": the process has exited inside a step                 *)
(* drv.seen and drv.after are observation: a step of this call has ended   *)
(* with an event condition true, and the steps executed since.  obs.stuck  *)
(* is set by an iteration that goes on (running stays TRUE) and leaves the *)
(* emulator exactly as it found it.  obs.reported counts the calls that    *)
(* returned NewFrame, and obs.late is set by a call that returned without  *)
(* it while new_frame_edge was set.                                        *)
(***************************************************************************)
Commit(e) ==
  /\ reg' = e.reg
  /\ interrupts' = e.interrupts
  /\ timer' = e.timer
  /\ lcd' = e.lcd
  /\ dma' = e.dma
  /\ sound' = e.sound
  /\ joypad' = e.joypad
  /\ serial' = e.serial
  /\ palettes' = e.palettes
  /\ cycles' = e.cycles
  /\ ram' = e.ram
  /\ hram' = e.hram
  /\ oam' = e.oam
  /\ vram' = e.vram
  /\ rom' = e.rom
  /\ memory_map' = e.memory_map
  /\ external_ram' = e.external_ram

\* the emulator e is in the state the variables hold
SameState(e) ==
  /\ e.reg = reg
  /\ e.interrupts = interrupts
  /\ e.timer = timer
  /\ e.lcd = lcd
  /\ e.dma = dma
  /\ e.sound = sound
  /\ e.joypad = joypad
  /\ e.serial = serial
  /\ e.palettes = palettes
  /\ e.cycles = cycles
  /\ e.ram = ram
  /\ e.hram = hram
  /\ e.oam = oam
  /\ e.vram = vram
  /\ e.rom = rom
  /\ e.memory_map = memory_map
  /\ e.external_ram = external_ram
  /\ ~e.exited

\* the step stays inside the modelled instruction set and away from the
\* sound registers and the wave RAM, which the specifications of the sound
\* unit cover
ModelCovers(e) ==
  LET modelled(a) == map_address(a).type \notin {"APU", "WAVE_RAM"} IN
  /\ modelled(e.reg.PC)
  /\ modelled(e.reg.HL)
  /\ \A d \in 0..5 : modelled(U16(e.reg.SP + 1 - d))
  /\ (e.interrupts.halt \/ read_u8(e, e.reg.PC) \in Opcodes)

Spent == U32(cycles - obs.start)

\* size_t samples = buffer->position - buffer->data
Samples(e) == e.sound.position

EventCond(e) == e.lcd.new_frame_edge \/ Samples(e) >= RequestedSamples

\* a faulty variant of Call: new_frame_edge is cleared whatever the last
\* event was
Call_clears_edge ==
  /\ drv.pc = "call"
  /\ Spent < MaxCycles
  /\ lcd' = [lcd EXCEPT !.new_frame_edge = FALSE]
  /\ sound' = IF BitAnd(drv.event, EMULATOR_EVENT_SOUND_BUFFER_FULL) # 0
                THEN [sound EXCEPT !.position = 0] ELSE sound
  /\ drv' = [drv EXCEPT !.pc = "loop", !.result = 0, !.running = TRUE,
                        !.seen = FALSE, !.after = 0]
  /\ UNCHANGED << reg, interrupts, timer, dma, joypad, serial, palettes,
                  cycles, ram, hram, oam, vram, rom,
                  memory_map, external_ram, obs >>

\* run_emulator_until_event up to the loop
Call ==
  /\ drv.pc = "call"
  /\ Spent < MaxCycles
  /\ lcd' = IF BitAnd(drv.event, EMULATOR_EVENT_NEW_FRAME) # 0
              THEN [lcd EXCEPT !.new_frame_edge = FALSE] ELSE lcd
  /\ sound' = IF BitAnd(drv.event, EMULATOR_EVENT_SOUND_BUFFER_FULL) # 0
                THEN [sound EXCEPT !.position = 0] ELSE sound
  /\ drv' = [drv EXCEPT !.pc = "loop", !.result = 0, !.running = TRUE,
                        !.seen = FALSE, !.after = 0]
  /\ UNCHANGED << reg, interrupts, timer, dma, joypad, serial, palettes,
                  cycles, ram, hram, oam, vram, rom,
                  memory_map, external_ram, obs >>

\* one iteration of the while loop: the two checks, then step_emulator
Iterate ==
  /\ drv.pc = "loop"
  /\ drv.running
  /\ Spent < MaxCycles
  /\ ModelCovers(Emu)
  /\ \E e1 \in {step_emulator(Emu)} :
       LET frame == lcd.new_frame_edge
           full == Samples(Emu) >= RequestedSamples
           result ==
             BitOr(BitOr(drv.result,
                         IF frame THEN EMULATOR_EVENT_NEW_FRAME ELSE 0),
                   IF full THEN EMULATOR_EVENT_SOUND_BUFFER_FULL ELSE 0)
       IN /\ Commit(e1)
          /\ drv' = [drv EXCEPT
                       !.pc = IF e1.exited THEN "exit" ELSE "loop",
                       !.result = result,
                       !.running = ~(frame \/ full),
                       !.seen = @ \/ EventCond(e1),
                       !.after = IF drv.seen THEN @ + 1 ELSE @]
          /\ obs' = [obs EXCEPT
                       !.stuck = ~(frame \/ full) /\ SameState(e1),
                       !.last = StepRecord(Emu, e1),
                       !.hist = IF Emu.interrupts.halt THEN @
                                ELSE LastN(Append(@, StepRecord(Emu, e1)),
                                           HistLen)]

\* return result
Return ==
  /\ drv.pc = "loop"
  /\ ~drv.running
  /\ drv' = [drv EXCEPT !.pc = "call", !.event = drv.result,
                        !.returned = TRUE]
  /\ obs' = [obs EXCEPT
               !.reported =
                 @ + B2N(BitAnd(drv.result, EMULATOR_EVENT_NEW_FRAME) # 0),
               !.late =
                 @ \/ (/\ lcd.new_frame_edge
                       /\ BitAnd(drv.result, EMULATOR_EVENT_NEW_FRAME) = 0)]
  /\ UNCHANGED << reg, interrupts, timer, lcd, dma, sound, joypad, serial,
                  palettes, cycles, ram, hram, oam, vram, rom,
                  memory_map, external_ram >>

Init ==
  \E p \in Programs, sc \in Scenarios :
    \E e \in {Setup(init_emulator(RomData(p)), sc)} :
    /\ reg = e.reg
    /\ interrupts = e.interrupts
    /\ timer = e.timer
    /\ lcd = e.lcd
    /\ dma = e.dma
    /\ sound = e.sound
    /\ joypad = e.joypad
    /\ serial = e.serial
    /\ palettes = e.palettes
    /\ cycles = e.cycles
    /\ ram = e.ram
    /\ hram = e.hram
    /\ oam = e.oam
    /\ vram = e.vram
    /\ rom = e.rom
    /\ memory_map = e.memory_map
    /\ external_ram = e.external_ram
    /\ drv = [pc |-> "call", event |-> 0, result |-> 0, running |-> FALSE,
              returned |-> FALSE, seen |-> FALSE, after |-> 0]
    /\ obs = [start |-> e.cycles, stuck |-> FALSE, last |-> NoStep(e),
              hist |-> << >>, reported |-> 0, late |-> FALSE]

Next == Call \/ Iterate \/ Return

Spec == Init /\ [][Next]_vars

(***************************************************************************)
(* The PPU on its own: update_lcd_cycles is charged chunk after chunk, in  *)
(* the sizes instructions produce (multiples of 4).  obs keeps the PPU's   *)
(* timeline: the cycles charged so far, the time the current frame         *)
(* started, and the distance between the last two frame starts (-1 before  *)
(* the second start).                                                      *)
(***************************************************************************)
InitLcd ==
  LET e == init_emulator(RomData(<< >>)) IN
  /\ reg = e.reg
  /\ interrupts = e.interrupts
  /\ timer = e.timer
  /\ lcd = e.lcd
  /\ dma = e.dma
  /\ sound = e.sound
  /\ joypad = e.joypad
  /\ serial = e.serial
  /\ palettes = e.palettes
  /\ cycles = e.cycles
  /\ ram = e.ram
  /\ hram = e.hram
  /\ oam = e.oam
  /\ vram = e.vram
  /\ rom = e.rom
  /\ memory_map = e.memory_map
  /\ external_ram = e.external_ram
  /\ drv = [pc |-> "lcd"]
  /\ obs = [total |-> 0, start |-> 0, gap |-> -1]

LcdAdvance ==
  /\ lcd.frame < MaxFrames
  /\ \E k \in 1..MaxChunk :
       \E e1 \in {update_lcd_cycles(Emu, 4 * k)} :
         LET total == obs.total + 4 * k
             start == total - e1.lcd.cycles
         IN /\ lcd' = e1.lcd
            /\ interrupts' = e1.interrupts
            /\ obs' = IF e1.lcd.frame # lcd.frame
                        THEN [total |-> total, start |-> start,
                              gap |-> start - obs.start]
                        ELSE [obs EXCEPT !.total = total]
  /\ UNCHANGED << reg, timer, dma, sound, joypad, serial, palettes, cycles,
                  ram, hram, oam, vram, rom,
                  memory_map, external_ram, drv >>

NextLcd == LcdAdvance

SpecLcd == InitLcd /\ [][NextLcd]_vars

(***************************************************************************)
(* The PPU under LCDC writes: update_lcd_cycles is charged in chunks as in *)
(* SpecLcd, and between chunks the program may write LCDC with the display *)
(* bit set or clear.  obs.switched records that a write has switched the   *)
(* display on, obs.off the chunks charged since the display went off.      *)
(***************************************************************************)
LcdcValues == {145, 17}

InitPpu ==
  LET e == init_emulator(RomData(<< >>)) IN
  /\ reg = e.reg
  /\ interrupts = e.interrupts
  /\ timer = e.timer
  /\ lcd = e.lcd
  /\ dma = e.dma
  /\ sound = e.sound
  /\ joypad = e.joypad
  /\ serial = e.serial
  /\ palettes = e.palettes
  /\ cycles = e.cycles
  /\ ram = e.ram
  /\ hram = e.hram
  /\ oam = e.oam
  /\ vram = e.vram
  /\ rom = e.rom
  /\ memory_map = e.memory_map
  /\ external_ram = e.external_ram
  /\ drv = [pc |-> "ppu"]
  /\ obs = [switched |-> FALSE, off |-> 0]

PpuAdvance ==
  /\ lcd.frame < MaxFrames
  /\ lcd.lcdc.display \/ obs.off < MaxOffChunks
  /\ \E k \in 1..MaxChunk :
       \E e1 \in {update_lcd_cycles(Emu, 4 * k)} :
         /\ lcd' = e1.lcd
         /\ interrupts' = e1.interrupts
  /\ obs' = [obs EXCEPT !.off = IF lcd.lcdc.display THEN 0 ELSE @ + 1]
  /\ UNCHANGED << reg, timer, dma, sound, joypad, serial, palettes, cycles,
                  ram, hram, oam, vram, rom,
                  memory_map, external_ram, drv >>

PpuWriteLcdc ==
  /\ \E value \in LcdcValues :
       \E e1 \in {write_io(Emu, IO_LCDC_ADDR, value)} :
         /\ lcd' = e1.lcd
         /\ obs' = [switched |-> obs.switched
                                  \/ (~lcd.lcdc.display
                                      /\ e1.lcd.lcdc.display),
                    off |-> IF lcd.lcdc.display = e1.lcd.lcdc.display
                              THEN obs.off ELSE 0]
  /\ UNCHANGED << reg, interrupts, timer, dma, sound, joypad, serial,
                  palettes, cycles, ram, hram, oam, vram, rom,
                  memory_map, external_ram, drv >>

NextPpu == PpuAdvance \/ PpuWriteLcdc

SpecPpu == InitPpu /\ [][NextPpu]_vars

(***************************************************************************)
(* The timer on its own.  The program resets DIV, lets `phase` cycles pass *)
(* with the timer off, writes TMA, TIMA and TAC, and then the timer is     *)
(* charged chunk after chunk.  obs keeps what was written, the cycles      *)
(* charged since, and the timer as it stood after each of the last         *)
(* iterations of update_timer_cycles' loop (one iteration is 4 cycles).    *)
(***************************************************************************)
TimerSnap(e) ==
  [TIMA |-> e.timer.TIMA, TMA |-> e.timer.TMA,
   overflow |-> e.timer.tima_overflow, div |-> e.timer.div_counter,
   IF2 |-> BitAnd(e.interrupts.IF, INTERRUPT_TIMER_MASK) # 0]

\* the timer after each of the k iterations of update_timer_cycles(e, 4k)
TimerTrace(e, k) == [j \in 1..k |-> TimerSnap(timer_loop(e, 0, 4 * j))]

TimerPrograms ==
  [tac : {5, 6}, tma : {254, 0, 16}, tima : {254, 255}, phase : {0, 4, 8, 12}]

InitTimer ==
  \E p \in TimerPrograms :
    \E e1 \in {write_io(init_emulator(RomData(<< >>)), IO_DIV_ADDR, 0)} :
    \E e2 \in {update_timer_cycles(e1, p.phase)} :
    \E e3 \in {write_io(e2, IO_TMA_ADDR, p.tma)} :
    \E e4 \in {write_io(e3, IO_TIMA_ADDR, p.tima)} :
    \E e \in {write_io(e4, IO_TAC_ADDR, p.tac)} :
      /\ reg = e.reg
      /\ interrupts = e.interrupts
      /\ timer = e.timer
      /\ lcd = e.lcd
      /\ dma = e.dma
      /\ sound = e.sound
      /\ joypad = e.joypad
      /\ serial = e.serial
      /\ palettes = e.palettes
      /\ cycles = e.cycles
      /\ ram = e.ram
      /\ hram = e.hram
      /\ oam = e.oam
      /\ vram = e.vram
      /\ rom = e.rom
      /\ memory_map = e.memory_map
      /\ external_ram = e.external_ram
      /\ drv = [pc |-> "timer"]
      /\ obs = [program |-> p, elapsed |-> 0, trace |-> << TimerSnap(e) >>]

TimerAdvance ==
  /\ obs.elapsed < MaxTimerCycles
  /\ \E k \in 1..MaxChunk :
       \E e1 \in {update_timer_cycles(Emu, 4 * k)} :
         /\ timer' = e1.timer
         /\ interrupts' = e1.interrupts
         /\ obs' = [obs EXCEPT
                      !.elapsed = @ + 4 * k,
                      !.trace = LastN(@ \o TimerTrace(Emu, k), MaxChunk + 2)]
  /\ UNCHANGED << reg, lcd, dma, sound, joypad, serial, palettes, cycles,
                  ram, hram, oam, vram, rom,
                  memory_map, external_ram, drv >>

NextTimer == TimerAdvance

SpecTimer == InitTimer /\ [][NextTimer]_vars

(***************************************************************************)
(* OAM DMA.  The program has filled the first 160 bytes of work RAM with a *)
(* pattern and those of video RAM with 0xFF (the byte a DMA reads from     *)
(* video RAM in mode 3 anyway), and writes the source page to 0xFF46; then *)
(* cycles are charged                                                      *)
(* in chunks (update_cycles, so the PPU goes through its modes), and       *)
(* between two chunks the CPU may read or write one byte.  obs keeps the   *)
(* page written, the cycles charged since, the number of CPU writes, and   *)
(* the last CPU access made since the last chunk.                          *)
(***************************************************************************)
\* the byte the program stored at offset i of the source
Pattern(i) == (37 * i + 11) % 256

\* source pages: ROM, video RAM, work RAM
DmaPages == {0, 128, 192}

\* addresses the CPU accesses: ROM, VRAM, WRAM, OAM, SCY, HRAM, IE
DmaProbes == {0, 32768, 49152, 65024, 65346, 65408, 65534, 65535}

NoAccess == [kind |-> "none"]

InitDma ==
  \E page \in DmaPages :
    \E e0 \in {init_emulator(RomData(<< >>))} :
    \E e1 \in {[e0 EXCEPT
                   !.ram = [i \in 0..(OAM_TRANSFER_SIZE - 1) |-> Pattern(i)],
                   !.vram = [i \in 0..(OAM_TRANSFER_SIZE - 1) |->
                               INVALID_READ_BYTE]]} :
    \E e \in {write_u8(e1, IO_START_ADDR + IO_DMA_ADDR, page)} :
      /\ reg = e.reg
      /\ interrupts = e.interrupts
      /\ timer = e.timer
      /\ lcd = e.lcd
      /\ dma = e.dma
      /\ sound = e.sound
      /\ joypad = e.joypad
      /\ serial = e.serial
      /\ palettes = e.palettes
      /\ cycles = e.cycles
      /\ ram = e.ram
      /\ hram = e.hram
      /\ oam = e.oam
      /\ vram = e.vram
      /\ rom = e.rom
      /\ memory_map = e.memory_map
      /\ external_ram = e.external_ram
      /\ drv = [pc |-> "dma"]
      /\ obs = [page |-> page, elapsed |-> 0, writes |-> 0,
                last |-> NoAccess]

DmaAdvance ==
  /\ obs.elapsed < MaxDmaCycles
  /\ \E k \in 1..MaxChunk :
       \E e1 \in {update_cycles(Emu, 4 * k)} :
         /\ Commit(e1)
         /\ obs' = [obs EXCEPT !.elapsed = @ + 4 * k, !.last = NoAccess]
  /\ drv' = drv

\* the CPU reads a byte
DmaRead ==
  /\ obs.last = NoAccess
  /\ \E addr \in DmaProbes :
       obs' = [obs EXCEPT !.last =
                 [kind |-> "read", addr |-> addr, active |-> dma.active,
                  value |-> read_u8(Emu, addr),
                  free |-> read_u8([Emu EXCEPT !.dma.active = FALSE], addr)]]
  /\ UNCHANGED << reg, interrupts, timer, lcd, dma, sound, joypad, serial,
                  palettes, cycles, ram, hram, oam, vram, rom,
                  memory_map, external_ram, drv >>

\* the CPU writes a byte
DmaWrite ==
  /\ obs.last = NoAccess
  /\ obs.writes < MaxDmaWrites
  /\ \E addr \in DmaProbes, value \in {90} :
       \E e1 \in {write_u8(Emu, addr, value)} :
       \E e2 \in {write_u8([Emu EXCEPT !.dma.active = FALSE], addr, value)} :
         /\ Commit(e1)
         /\ obs' = [obs EXCEPT
                      !.writes = @ + 1,
                      !.last =
                        [kind |-> "write", addr |-> addr, active |-> dma.active,
                         value |-> value,
                         same |-> SameState(e1),
                         free |-> e1 = [e2 EXCEPT !.dma.active = dma.active],
                         back |-> read_u8(e1, addr)]]
  /\ drv' = drv

NextDma == DmaAdvance \/ DmaRead \/ DmaWrite

SpecDma == InitDma /\ [][NextDma]_vars

(***************************************************************************)
(* One instruction.  The ROM holds an opcode and two operand bytes at the  *)
(* entry point and the program is entered with the Z flag set or clear;    *)
(* step_emulator runs once.  obs keeps the registers and memory before the *)
(* step, its record, whether it ended the process, and the cycles the same *)
(* step charges when entered with the other value of Z.                    *)
(***************************************************************************)
CpuOpcodes == Opcodes \cup {32, 40, 194, 196, 200, 202, 204}

CpuOperands == {<< 5, 1 >>, << 254, 1 >>, << 128, 0 >>}

InitCpu ==
  \E op \in CpuOpcodes, n \in CpuOperands, z \in BOOLEAN :
    \E e0 \in {init_emulator(RomData((EntryPC :> op)
                                       @@ ((EntryPC + 1) :> n[1])
                                       @@ ((EntryPC + 2) :> n[2])))} :
    \E e \in {[e0 EXCEPT !.reg.F.Z = z]} :
      /\ reg = e.reg
      /\ interrupts = e.interrupts
      /\ timer = e.timer
      /\ lcd = e.lcd
      /\ dma = e.dma
      /\ sound = e.sound
      /\ joypad = e.joypad
      /\ serial = e.serial
      /\ palettes = e.palettes
      /\ cycles = e.cycles
      /\ ram = e.ram
      /\ hram = e.hram
      /\ oam = e.oam
      /\ vram = e.vram
      /\ rom = e.rom
      /\ memory_map = e.memory_map
      /\ external_ram = e.external_ram
      /\ drv = [pc |-> "cpu", done |-> FALSE]
      /\ obs = [op |-> op, z |-> z, exited |-> FALSE, rec |-> NoStep(e),
                alt |-> NoCharge,
                pre |-> [reg |-> e.reg, ram |-> e.ram, hram |-> e.hram,
                         oam |-> e.oam, vram |-> e.vram]]

CpuStep ==
  /\ ~drv.done
  /\ \E step \in {[z \in BOOLEAN |->
                     step_emulator([Emu EXCEPT !.reg.F.Z = z])]} :
     \E e1 \in {step[reg.F.Z]} :
     \E e2 \in {step[~reg.F.Z]} :
       /\ Commit(e1)
       /\ obs' = [obs EXCEPT !.exited = e1.exited,
                             !.rec = StepRecord(Emu, e1),
                             !.alt = e2.chg]
  /\ drv' = [drv EXCEPT !.done = TRUE]

NextCpu == CpuStep

SpecCpu == InitCpu /\ [][NextCpu]_vars

(***************************************************************************)
(* The sound registers.  A program has configured the sound hardware (or   *)
(* left it as construction did, or has switched it off) and then writes    *)
(* bytes to the sound registers and the wave RAM, with no cycles elapsing  *)
(* in between.  obs keeps the last write and struct Sound before it.       *)
(***************************************************************************)
\* addresses of the writes: every address of the sound register block and
\* the two ends of the wave RAM
ApuAddrs ==
  (APU_START_ADDR .. (WAVE_RAM_START_ADDR - 1))
    \cup {WAVE_RAM_START_ADDR, WAVE_RAM_END_ADDR}

\* bytes written: nothing set; length enable, duty 1 and length 1; trigger
\* alone; everything set
ApuValues == {0, 65, 128, 255}

\* a program that starts all four channels: << address, byte >> in order
ApuPlaying ==
  << << WAVE_RAM_START_ADDR, 18 >>, << WAVE_RAM_END_ADDR, 239 >>,
     << APU_START_ADDR + APU_NR10_ADDR, 44 >>,
     << APU_START_ADDR + APU_NR11_ADDR, 197 >>,
     << APU_START_ADDR + APU_NR12_ADDR, 243 >>,
     << APU_START_ADDR + APU_NR13_ADDR, 52 >>,
     << APU_START_ADDR + APU_NR14_ADDR, 198 >>,
     << APU_START_ADDR + APU_NR21_ADDR, 133 >>,
     << APU_START_ADDR + APU_NR22_ADDR, 162 >>,
     << APU_START_ADDR + APU_NR23_ADDR, 16 >>,
     << APU_START_ADDR + APU_NR24_ADDR, 133 >>,
     << APU_START_ADDR + APU_NR30_ADDR, 128 >>,
     << APU_START_ADDR + APU_NR31_ADDR, 32 >>,
     << APU_START_ADDR + APU_NR32_ADDR, 64 >>,
     << APU_START_ADDR + APU_NR33_ADDR, 119 >>,
     << APU_START_ADDR + APU_NR34_ADDR, 131 >>,
     << APU_START_ADDR + APU_NR41_ADDR, 31 >>,
     << APU_START_ADDR + APU_NR42_ADDR, 155 >>,
     << APU_START_ADDR + APU_NR43_ADDR, 93 >>,
     << APU_START_ADDR + APU_NR44_ADDR, 192 >>,
     << APU_START_ADDR + APU_NR50_ADDR, 165 >>,
     << APU_START_ADDR + APU_NR51_ADDR, 90 >> >>

ApuPowerOff == << << APU_START_ADDR + APU_NR52_ADDR, 0 >> >>

ApuPrograms ==
  { << >>, ApuPlaying, ApuPowerOff, ApuPlaying \o ApuPowerOff }

RECURSIVE ApuRun(_, _)
ApuRun(e, writes) ==
  IF writes = << >> THEN e
  ELSE Let(write_u8(e, Head(writes)[1], Head(writes)[2]),
           LAMBDA e1 : ApuRun(e1, Tail(writes)))

InitApu ==
  \E program \in ApuPrograms :
    \E e \in {ApuRun(init_emulator(RomData(<< >>)), program)} :
      /\ reg = e.reg
      /\ interrupts = e.interrupts
      /\ timer = e.timer
      /\ lcd = e.lcd
      /\ dma = e.dma
      /\ sound = e.sound
      /\ joypad = e.joypad
      /\ serial = e.serial
      /\ palettes = e.palettes
      /\ cycles = e.cycles
      /\ ram = e.ram
      /\ hram = e.hram
      /\ oam = e.oam
      /\ vram = e.vram
      /\ rom = e.rom
      /\ memory_map = e.memory_map
      /\ external_ram = e.external_ram
      /\ drv = [pc |-> "apu"]
      /\ obs = [writes |-> 0, last |-> NoAccess]

\* the CPU writes a byte to a sound register or to the wave RAM
ApuWrite ==
  /\ obs.writes < MaxApuWrites
  /\ \E addr \in ApuAddrs, value \in ApuValues :
       \E e1 \in {write_u8(Emu, addr, value)} :
         /\ Commit(e1)
         /\ obs' = [writes |-> obs.writes + 1,
                    last |-> [kind |-> "write", addr |-> addr,
                              value |-> value, before |-> sound,
                              rest |-> [e1 EXCEPT !.sound = sound] = Emu]]
  /\ drv' = drv

NextApu == ApuWrite

SpecApu == InitApu /\ [][NextApu]_vars

(***************************************************************************)
(* Specification SpecSeq: the four channels play and time passes.  The      *)
(* program variables advance by update_cycles, 4*k cycles at a time around *)
(* each step of the frame sequencer and as a run of such calls between two *)
(* steps.                                                                  *)
(***************************************************************************)
\* master cycles in the largest single advance
SeqWindow == 4 * MaxChunk

\* powered-on master cycles that precede the power cycle of a run
SeqPhases == {0, 20, 8000}

ApuPowerOn == << << APU_START_ADDR + APU_NR52_ADDR, 128 >> >>

\* n master cycles pass as successive update_cycles calls of at most
\* SeqWindow cycles each
RECURSIVE SeqRun(_, _)
SeqRun(e, n) ==
  IF n <= 0 THEN e
  ELSE IF n <= SeqWindow THEN update_cycles(e, n)
  ELSE Let(SeqRun(e, SeqWindow * ((((n - 1) \div SeqWindow) + 1) \div 2)),
           LAMBDA a :
             SeqRun([a EXCEPT !.log = << >>],
                    n - SeqWindow * ((((n - 1) \div SeqWindow) + 1) \div 2)))

\* what the frame sequencer clocks, read off the sound state
SeqSnap(snd) ==
  [frame |-> snd.frame,
   frame_cycles |-> snd.frame_cycles,
   length |-> [c \in 0 .. (CHANNEL_COUNT - 1) |-> snd.channel[c].length],
   sweep |-> snd.sweep.timer,
   envelope |-> [c \in 0 .. (CHANNEL_COUNT - 1) |->
                   << snd.channel[c].envelope.timer,
                      snd.channel[c].envelope.volume >>]]

InitSeq ==
  \E phase \in SeqPhases :
    \E booted \in {init_emulator(RomData(<< >>))} :
    \E e0 \in {SeqRun(booted, phase)} :
    \E e \in {ApuRun([e0 EXCEPT !.log = << >>, !.chg = NoCharge],
                     IF phase = 0 THEN ApuPlaying
                     ELSE ApuPowerOff \o ApuPowerOn \o ApuPlaying)} :
      /\ reg = e.reg
      /\ interrupts = e.interrupts
      /\ timer = e.timer
      /\ lcd = e.lcd
      /\ dma = e.dma
      /\ sound = e.sound
      /\ joypad = e.joypad
      /\ serial = e.serial
      /\ palettes = e.palettes
      /\ cycles = e.cycles
      /\ ram = e.ram
      /\ hram = e.hram
      /\ oam = e.oam
      /\ vram = e.vram
      /\ rom = e.rom
      /\ memory_map = e.memory_map
      /\ external_ram = e.external_ram
      /\ drv = [pc |-> "seq"]
      /\ obs = [phase |-> phase, elapsed |-> 0, steps |-> 0,
                before |-> SeqSnap(e.sound), charged |-> 0]

\* the next step of the sequencer is within reach of one or two advances,
\* or the last one has just happened
NearStep ==
  \/ sound.frame_cycles >= FRAME_SEQUENCER_CYCLES - 2 * SeqWindow
  \/ sound.frame_cycles < SeqWindow

\* one instruction's worth of cycles passes
SeqAdvance ==
  /\ NearStep
  /\ obs.steps < MaxSeqSteps
  /\ \E k \in 1..MaxChunk :
       \E e1 \in {update_cycles(Emu, 4 * k)} :
         /\ Commit(e1)
         /\ obs' = [obs EXCEPT
                      !.elapsed = @ + 4 * k,
                      !.steps = IF e1.sound.frame # sound.frame
                                  THEN @ + 1 ELSE @,
                      !.before = SeqSnap(sound),
                      !.charged = e1.chg.apu]
  /\ drv' = drv

\* the time up to the neighbourhood of the next step passes
SeqSkip ==
  /\ ~NearStep
  /\ \E n \in {FRAME_SEQUENCER_CYCLES - 2 * SeqWindow - sound.frame_cycles} :
       \E e1 \in {SeqRun(Emu, n)} :
         /\ Commit(e1)
         /\ obs' = [obs EXCEPT
                      !.elapsed = @ + n,
                      !.before = SeqSnap(sound),
                      !.charged = n]
  /\ drv' = drv

NextSeq == SeqAdvance \/ SeqSkip

SpecSeq == InitSeq /\ [][NextSeq]_vars

(***************************************************************************)
(* Specification SpecWave: channel 3 plays a wave RAM of sixteen different *)
(* bytes, time passes and the CPU triggers the channel through NR34.       *)
(***************************************************************************)
\* frequencies of channel 3: wave periods of 4, 6 and 16 master cycles
WaveFrequencies == {2046, 2045, 2040}

\* the byte the program stores at wave RAM index i
WaveByte(i) == 15 * (i + 1)

\* fill the wave RAM, switch the DAC on, set the frequency and, when
\* started, trigger the channel
WaveProgram(f, started) ==
  [i \in 1 .. WAVE_RAM_SIZE |-> << WAVE_RAM_START_ADDR + i - 1, WaveByte(i - 1) >>]
    \o << << APU_START_ADDR + APU_NR30_ADDR, 128 >>,
          << APU_START_ADDR + APU_NR32_ADDR, 32 >>,
          << APU_START_ADDR + APU_NR33_ADDR, f % 256 >>,
          << APU_START_ADDR + APU_NR34_ADDR,
             (f \div 256) + (IF started THEN 128 ELSE 0) >> >>

InitWave ==
  \E f \in WaveFrequencies, started \in BOOLEAN :
    \E e \in {ApuRun(init_emulator(RomData(<< >>)), WaveProgram(f, started))} :
      /\ reg = e.reg
      /\ interrupts = e.interrupts
      /\ timer = e.timer
      /\ lcd = e.lcd
      /\ dma = e.dma
      /\ sound = e.sound
      /\ joypad = e.joypad
      /\ serial = e.serial
      /\ palettes = e.palettes
      /\ cycles = e.cycles
      /\ ram = e.ram
      /\ hram = e.hram
      /\ oam = e.oam
      /\ vram = e.vram
      /\ rom = e.rom
      /\ memory_map = e.memory_map
      /\ external_ram = e.external_ram
      /\ drv = [pc |-> "wave"]
      /\ obs = [f |-> f, elapsed |-> 0, triggers |-> 0, last |-> NoAccess]

\* one instruction's worth of cycles passes
WaveAdvance ==
  /\ obs.elapsed < MaxWaveCycles
  /\ \E k \in 1..MaxChunk :
       \E e1 \in {update_cycles(Emu, 4 * k)} :
         /\ Commit(e1)
         /\ obs' = [obs EXCEPT !.elapsed = @ + 4 * k, !.last = NoAccess]
  /\ drv' = drv

\* the CPU writes NR34 with the trigger bit set, the frequency unchanged
WaveTrigger ==
  /\ obs.triggers < MaxWaveTriggers
  /\ \E e1 \in {write_u8(Emu, APU_START_ADDR + APU_NR34_ADDR,
                         128 + (obs.f \div 256))} :
       /\ Commit(e1)
       /\ obs' = [obs EXCEPT
                    !.triggers = @ + 1,
                    !.last = [kind |-> "trigger", before |-> sound.wave,
                              hit |-> is_concurrent_wave_ram_access(
                                        Emu,
                                        WAVE_SAMPLE_TRIGGER_OFFSET_CYCLES)]]
  /\ drv' = drv

NextWave == WaveAdvance \/ WaveTrigger

SpecWave == InitWave /\ [][NextWave]_vars

(***************************************************************************)
(* Specification SpecCart: main loads a ROM image and constructs the       *)
(* emulator; on success the CPU writes to and reads from the cartridge's   *)
(* address ranges.                                                         *)
(***************************************************************************)
\* cartridge types of the images: ROM only, MBC1 with RAM, MBC2, MBC3 with
\* RAM and battery, MBC5 with RAM and battery
CartTypes == {0, 2, 5, 19, 27}

\* offsets in a 16 KiB bank at which an image holds a mark
CartMarks == {0, 8192, 8448}

\* the mark of bank b at the k-th offset
CartMark(b, o) == 64 + 16 * b + (o \div 8192) + (o % 8192) \div 256

\* the header of an image, without its checksum byte
CartHeader(c) ==
  (CARTRIDGE_TYPE_ADDR :> c.type) @@ (ROM_SIZE_ADDR :> c.rom_code)
    @@ (RAM_SIZE_ADDR :> c.ram_code)

\* the image file: its length, the header with a right or a wrong checksum,
\* and the marks of its banks
CartFile(c) ==
  [size |-> c.size,
   data |->
     (HEADER_CHECKSUM_ADDR :>
        U8(header_checksum(CartHeader(c), HEADER_CHECKSUM_RANGE_END)
             + (IF c.checksum_ok THEN 0 ELSE 1)))
     @@ CartHeader(c)
     @@ [a \in { b * 16384 + o : b \in 0 .. ((c.size \div 16384) - 1),
                                 o \in CartMarks }
           |-> CartMark(a \div 16384, a % 16384)]]

Carts ==
  [type : CartTypes, rom_code : {0, 1}, ram_code : {0, 2},
   size : {16384, 32768, 65536}, checksum_ok : BOOLEAN]

\* CHECK_MSG(size >= MINIMUM_ROM_SIZE, ...) of read_rom_data_from_file
read_rom_data_from_file(file) ==
  [result |-> IF file.size >= MINIMUM_ROM_SIZE THEN "OK" ELSE "ERROR",
   rom_data |-> [data |-> file.data, size |-> file.size]]

\* addresses the CPU accesses: RAM enable, ROM bank, RAM bank or upper ROM
\* bank bits, banking mode, and two addresses of the external RAM
CartAddrs == {0, 8448, 16384, 24576, 40960, 45620}

CartValues == {10, 1, 3}

\* the cartridge state that an access may touch
CartSnap == [rom |-> rom, memory_map |-> memory_map,
             external_ram |-> external_ram]

InitCart ==
  \E c \in Carts :
    \E e \in {ZERO_MEMORY} :
      /\ reg = e.reg
      /\ interrupts = e.interrupts
      /\ timer = e.timer
      /\ lcd = e.lcd
      /\ dma = e.dma
      /\ sound = e.sound
      /\ joypad = e.joypad
      /\ serial = e.serial
      /\ palettes = e.palettes
      /\ cycles = e.cycles
      /\ ram = e.ram
      /\ hram = e.hram
      /\ oam = e.oam
      /\ vram = e.vram
      /\ rom = e.rom
      /\ memory_map = e.memory_map
      /\ external_ram = e.external_ram
      /\ drv = [pc |-> "main", cart |-> c, result |-> "none"]
      /\ obs = [writes |-> 0, last |-> NoAccess]

\* main up to its event loop: read_rom_data_from_file, then init_emulator;
\* an ERROR of either takes main to its error label
CartLoad ==
  /\ drv.pc = "main"
  /\ \E file \in {read_rom_data_from_file(CartFile(drv.cart))} :
       IF file.result = "ERROR"
         THEN /\ drv' = [drv EXCEPT !.pc = "error", !.result = "ERROR"]
              /\ UNCHANGED << reg, interrupts, timer, lcd, dma, sound,
                              joypad, serial, palettes, cycles, ram, hram,
                              oam, vram, rom, memory_map, external_ram >>
         ELSE \E e1 \in {init_emulator(file.rom_data)} :
                /\ Commit(e1)
                /\ drv' = [drv EXCEPT
                             !.pc = IF init_emulator_result(file.rom_data)
                                         = "OK"
                                      THEN "loop" ELSE "error",
                             !.result = init_emulator_result(file.rom_data)]
  /\ obs' = obs

\* the CPU writes a byte
CartWrite ==
  /\ drv.pc = "loop"
  /\ obs.writes < MaxCartWrites
  /\ \E addr \in CartAddrs, value \in CartValues :
       \E e1 \in {write_u8(Emu, addr, value)} :
         /\ Commit(e1)
         /\ obs' = [writes |-> obs.writes + 1,
                    last |-> [kind |-> "write", addr |-> addr,
                              value |-> value, before |-> CartSnap,
                              rest |-> [e1 EXCEPT
                                          !.memory_map = memory_map,
                                          !.external_ram = external_ram]
                                         = Emu]]
  /\ drv' = drv

\* the CPU reads a byte
CartRead ==
  /\ drv.pc = "loop"
  /\ \E addr \in CartAddrs :
       /\ obs' = [obs EXCEPT
                    !.last = [kind |-> "read", addr |-> addr,
                              value |-> read_u8(Emu, addr),
                              before |-> CartSnap, rest |-> TRUE]]
  /\ UNCHANGED << reg, interrupts, timer, lcd, dma, sound, joypad, serial,
                  palettes, cycles, ram, hram, oam, vram, rom, memory_map,
                  external_ram, drv >>

NextCart == CartLoad \/ CartWrite \/ CartRead

SpecCart == InitCart /\ [][NextCart]_vars

(***************************************************************************)
(* Specification SpecRender: a program switches the LCD off, stores two    *)
(* tiles, a tile map entry and one sprite, sets the palettes and switches  *)
(* the LCD on; time passes, lines are rendered and the CPU rewrites BGP.   *)
(* Tile 1 is index 3 throughout its rows 0 and 1; tile 2 has, in its rows  *)
(* 0 and 1, index 1 in pixels 0..3 and index 2 in pixels 4..7; map entry 0 *)
(* of the map at 0x9800 is tile 1; the sprite is object 0, at the top of   *)
(* the screen, of tile 2.                                                  *)
(***************************************************************************)
\* BGP values: index 0 is white, black, dark gray
RenderBgp == {228, 27, 254}

\* LCDC values, all with the display on: background only; nothing; sprites;
\* background and sprites; window and sprites; sprites of 8x16
RenderLcdc == {145, 144, 146, 147, 178, 150}

\* byte 3 of the sprite: above the background, behind it, behind it and
\* flipped in x, behind it with OBP1
RenderByte3 == {0, 128, 160, 144}

\* the x byte of the sprite: at the left edge, four pixels off it, at 20
RenderX == {8, 4, 28}

RenderProgram(bgp, lcdc, byte3, x) ==
  << << IO_START_ADDR + IO_LCDC_ADDR, 0 >>,
     << 32784, 255 >>, << 32785, 255 >>, << 32786, 255 >>, << 32787, 255 >>,
     << 32800, 240 >>, << 32801, 15 >>, << 32802, 240 >>, << 32803, 15 >>,
     << 38912, 1 >>,
     << OAM_START_ADDR, 16 >>, << OAM_START_ADDR + 1, x >>,
     << OAM_START_ADDR + 2, 2 >>, << OAM_START_ADDR + 3, byte3 >>,
     << IO_START_ADDR + IO_OBP0_ADDR, 228 >>,
     << IO_START_ADDR + IO_OBP1_ADDR, 27 >>,
     << IO_START_ADDR + IO_WX_ADDR, 15 >>,
     << IO_START_ADDR + IO_WY_ADDR, 1 >>,
     << IO_START_ADDR + IO_BGP_ADDR, bgp >>,
     << IO_START_ADDR + IO_LCDC_ADDR, lcdc >> >>

NoRender == [line_y |-> 255]

InitRender ==
  \E bgp \in RenderBgp, lcdc \in RenderLcdc, byte3 \in RenderByte3,
     x \in RenderX :
    \E e \in {ApuRun(init_emulator(RomData(<< >>)),
                     RenderProgram(bgp, lcdc, byte3, x))} :
      /\ reg = e.reg
      /\ interrupts = e.interrupts
      /\ timer = e.timer
      /\ lcd = e.lcd
      /\ dma = e.dma
      /\ sound = e.sound
      /\ joypad = e.joypad
      /\ serial = e.serial
      /\ palettes = e.palettes
      /\ cycles = e.cycles
      /\ ram = e.ram
      /\ hram = e.hram
      /\ oam = e.oam
      /\ vram = e.vram
      /\ rom = e.rom
      /\ memory_map = e.memory_map
      /\ external_ram = e.external_ram
      /\ drv = [pc |-> "render", x |-> x, byte3 |-> byte3]
      /\ obs = [elapsed |-> 0, writes |-> 0, rendered |-> NoRender]

\* the line that the step rendered: its number, its pixels, and the
\* registers render_line read
Rendered(e1) ==
  IF DOMAIN e1.frame_buffer = {}
    THEN obs.rendered
    ELSE LET line_y == CHOOSE y \in DOMAIN e1.frame_buffer : TRUE
         IN [line_y |-> line_y,
             line_data |-> render_line_data(e1.frame_buffer[line_y], line_y),
             lcdc |-> lcd.lcdc, bgp |-> palettes.bgp]

\* the cycles of a few instructions pass
RenderAdvance ==
  /\ obs.elapsed < MaxRenderCycles
  /\ \E k \in {10, 20} :
       \E e1 \in {SeqRun(Emu, 4 * k)} :
         /\ Commit(e1)
         /\ obs' = [obs EXCEPT !.elapsed = @ + 4 * k,
                               !.rendered = Rendered(e1)]
  /\ drv' = drv

\* the CPU writes BGP
RenderWrite ==
  /\ obs.writes < MaxRenderWrites
  /\ \E value \in RenderBgp :
       \E e1 \in {write_u8(Emu, IO_START_ADDR + IO_BGP_ADDR, value)} :
         /\ Commit(e1)
         /\ obs' = [obs EXCEPT !.writes = @ + 1]
  /\ drv' = drv

NextRender == RenderAdvance \/ RenderWrite

SpecRender == InitRender /\ [][NextRender]_vars

(***************************************************************************)
(* Specification SpecProg: small programs at the entry point, run from the *)
(* state after construction one step_emulator at a time.                   *)
(*   "s1":   LD SP,nn; XOR A; LDH (n),A; HALT                              *)
(*   "af":   LD SP,0xFF80; POP AF; PUSH AF; HALT, the word v at 0xFF80     *)
(*   "push": XOR A; PUSH AF; HALT                                          *)
(***************************************************************************)
\* operands of LD SP,nn: the top of high RAM and the end of work RAM
ProgStacks == {65534, 57344}

\* operands of LDH (n),A: TIMA, TMA and the first byte of high RAM
ProgPorts == {5, 6, 128}

\* the words POP AF loads: every combination of the flags, with different
\* low nibbles
ProgWords ==
  { a * 256 + f : a \in {18, 255},
                  f \in { 16 * h + ((5 * h + 3) % 16) : h \in 0 .. 15 }
                          \cup {0, 15, 240, 255} }

ProgRuns ==
  { [kind |-> "s1", nn |-> nn, n |-> n, v |-> 0] :
      nn \in ProgStacks, n \in ProgPorts }
  \cup { [kind |-> "af", nn |-> 65408, n |-> 0, v |-> v] : v \in ProgWords }
  \cup { [kind |-> "push", nn |-> 65534, n |-> 0, v |-> 0] }

\* the bytes of the program, from the entry point
ProgBytes(r) ==
  CASE r.kind = "s1" ->
         << 49, r.nn % 256, r.nn \div 256, 175, 224, r.n, 118 >>
    [] r.kind = "af" -> << 49, r.nn % 256, r.nn \div 256, 241, 245, 118 >>
    [] r.kind = "push" -> << 175, 245, 118 >>

ProgRom(r) ==
  RomData([a \in EntryPC .. (EntryPC + Len(ProgBytes(r)) - 1) |->
             ProgBytes(r)[a - EntryPC + 1]])

\* the word v stored at 0xFF80 before the program starts
ProgStore(r) ==
  IF r.kind = "af"
    THEN << << 65408, r.v % 256 >>, << 65409, r.v \div 256 >> >>
    ELSE << >>

InitProg ==
  \E r \in ProgRuns :
    \E e \in {ApuRun(init_emulator(ProgRom(r)), ProgStore(r))} :
      /\ reg = e.reg
      /\ interrupts = e.interrupts
      /\ timer = e.timer
      /\ lcd = e.lcd
      /\ dma = e.dma
      /\ sound = e.sound
      /\ joypad = e.joypad
      /\ serial = e.serial
      /\ palettes = e.palettes
      /\ cycles = e.cycles
      /\ ram = e.ram
      /\ hram = e.hram
      /\ oam = e.oam
      /\ vram = e.vram
      /\ rom = e.rom
      /\ memory_map = e.memory_map
      /\ external_ram = e.external_ram
      /\ drv = [pc |-> "prog", run |-> r]
      /\ obs = [steps |-> 0, op |-> -1, halted |-> FALSE]

\* one step_emulator; obs keeps the opcode it fetched, and whether the CPU
\* was halted already
ProgStep ==
  /\ obs.steps < MaxProgSteps
  /\ \E e1 \in {step_emulator(Emu)} :
       /\ Commit(e1)
       /\ obs' = [steps |-> obs.steps + 1,
                  op |-> IF interrupts.halt THEN -1 ELSE e1.op,
                  halted |-> interrupts.halt]
  /\ drv' = drv

NextProg == ProgStep

SpecProg == InitProg /\ [][NextProg]_vars

(***************************************************************************)
(* Specification SpecStat: the PPU with the STAT interrupt sources.  The   *)
(* program writes STAT and LYC after construction, lets the first 142      *)
(* lines of the frame pass, writes LCDC (leaving the display on or         *)
(* switching it off) and from there charges instruction-sized chunks       *)
(* through the last visible lines, VBlank and the first lines of the next  *)
(* frame, acknowledging interrupts by writing 0 to IF at any point.        *)
(* obs.before is IF as it was when the last chunk was charged, obs.lines   *)
(* the line changes so far.                                                *)
(***************************************************************************)
\* STAT values written: no source, HBlank, VBlank, OAM, LY = LYC
StatValues == {0, 8, 16, 32, 64}

StatLyc == {143, 144, 0}

StatChunks == {4, 6}

\* LCDC values written at the start of the exploration: display on, off
StatLcdc == {145, 17}

\* master cycles of the lines that pass before the exploration starts
StatStart == 142 * LINE_CYCLES

InitStat ==
  \E value \in StatValues :
    \E lyc \in StatLyc :
    \E booted \in {init_emulator(RomData(<< >>))} :
    \E e0 \in {write_io(write_io(booted, IO_STAT_ADDR, value),
                        IO_LYC_ADDR, lyc)} :
    \E lcdc \in StatLcdc :
    \E e1 \in {SeqRun([e0 EXCEPT !.log = << >>, !.chg = NoCharge],
                      StatStart)} :
    \E e \in {write_io(e1, IO_LCDC_ADDR, lcdc)} :
      /\ reg = e.reg
      /\ interrupts = e.interrupts
      /\ timer = e.timer
      /\ lcd = e.lcd
      /\ dma = e.dma
      /\ sound = e.sound
      /\ joypad = e.joypad
      /\ serial = e.serial
      /\ palettes = e.palettes
      /\ cycles = e.cycles
      /\ ram = e.ram
      /\ hram = e.hram
      /\ oam = e.oam
      /\ vram = e.vram
      /\ rom = e.rom
      /\ memory_map = e.memory_map
      /\ external_ram = e.external_ram
      /\ drv = [pc |-> "stat"]
      /\ obs = [before |-> e.interrupts.IF, lines |-> 0]

\* one instruction's worth of cycles reaches the PPU
StatAdvance ==
  /\ obs.lines < MaxStatLines
  /\ \E k \in StatChunks :
       \E e1 \in {update_lcd_cycles(Emu, 4 * k)} :
         /\ lcd' = e1.lcd
         /\ interrupts' = e1.interrupts
         /\ obs' = [before |-> interrupts.IF,
                    lines |-> IF e1.lcd.LY # lcd.LY
                                   \/ e1.lcd.fake_LY # lcd.fake_LY
                                THEN obs.lines + 1 ELSE obs.lines]
  /\ UNCHANGED << reg, timer, dma, sound, joypad, serial, palettes, cycles,
                  ram, hram, oam, vram, rom,
                  memory_map, external_ram, drv >>

\* the program acknowledges the pending interrupts
StatAck ==
  /\ interrupts.IF # 0
  /\ \E e1 \in {write_io(Emu, IO_IF_ADDR, 0)} :
       interrupts' = e1.interrupts
  /\ UNCHANGED << reg, timer, lcd, dma, sound, joypad, serial, palettes,
                  cycles, ram, hram, oam, vram, rom,
                  memory_map, external_ram, drv, obs >>

NextStat == StatAdvance \/ StatAck

SpecStat == InitStat /\ [][NextStat]_vars

(***************************************************************************)
(* Specification SpecTac: the timer under writes to DIV and TAC.  After    *)
(* construction (timer off, clock select 0, div_counter 0) `phase` cycles  *)
(* pass; from there the program executes 4-cycle instructions and writes   *)
(* DIV or TAC between them.  obs counts the cycles charged and the writes. *)
(***************************************************************************)
\* cycles that pass first: they leave div_counter with none of the selected
\* bits set, bit 3, bits 3 and 5, bits 3 and 9
TacPhases == {0, 8, 40, 520}

\* TAC values written: every enable and clock select
TacValues == 0 .. 7

InitTac ==
  \E phase \in TacPhases :
    \E booted \in {init_emulator(RomData(<< >>))} :
    \E e0 \in {SeqRun(booted, phase)} :
    \E e \in {[e0 EXCEPT !.log = << >>, !.chg = NoCharge]} :
      /\ reg = e.reg
      /\ interrupts = e.interrupts
      /\ timer = e.timer
      /\ lcd = e.lcd
      /\ dma = e.dma
      /\ sound = e.sound
      /\ joypad = e.joypad
      /\ serial = e.serial
      /\ palettes = e.palettes
      /\ cycles = e.cycles
      /\ ram = e.ram
      /\ hram = e.hram
      /\ oam = e.oam
      /\ vram = e.vram
      /\ rom = e.rom
      /\ memory_map = e.memory_map
      /\ external_ram = e.external_ram
      /\ drv = [pc |-> "tac"]
      /\ obs = [elapsed |-> 0, writes |-> 0]

\* a 4-cycle instruction: one iteration of the loop of update_timer_cycles
TacAdvance ==
  /\ obs.elapsed < MaxTacCycles
  /\ \E e1 \in {update_timer_cycles(Emu, 4)} :
       /\ timer' = e1.timer
       /\ interrupts' = e1.interrupts
  /\ obs' = [obs EXCEPT !.elapsed = @ + 4]
  /\ UNCHANGED << reg, lcd, dma, sound, joypad, serial, palettes, cycles,
                  ram, hram, oam, vram, rom,
                  memory_map, external_ram, drv >>

TacWriteDiv ==
  /\ obs.writes < MaxTacWrites
  /\ \E e1 \in {write_io(Emu, IO_DIV_ADDR, 0)} :
       /\ timer' = e1.timer
       /\ interrupts' = e1.interrupts
  /\ obs' = [obs EXCEPT !.writes = @ + 1]
  /\ UNCHANGED << reg, lcd, dma, sound, joypad, serial, palettes, cycles,
                  ram, hram, oam, vram, rom,
                  memory_map, external_ram, drv >>

TacWriteTac ==
  /\ obs.writes < MaxTacWrites
  /\ \E value \in TacValues :
       \E e1 \in {write_io(Emu, IO_TAC_ADDR, value)} :
         /\ timer' = e1.timer
         /\ interrupts' = e1.interrupts
  /\ obs' = [obs EXCEPT !.writes = @ + 1]
  /\ UNCHANGED << reg, lcd, dma, sound, joypad, serial, palettes, cycles,
                  ram, hram, oam, vram, rom,
                  memory_map, external_ram, drv >>

NextTac == TacAdvance \/ TacWriteDiv \/ TacWriteTac

SpecTac == InitTac /\ [][NextTac]_vars

(***************************************************************************)
(* Specification SpecMbc: a 2 MiB cartridge with an MBC1 or an MBC3 and    *)
(* 32 KiB of external RAM is loaded, and the CPU writes to the four        *)
(* register ranges of the controller.  Every bank of the image holds a     *)
(* mark in its first byte.  obs keeps the last value written to each of    *)
(* 0x2000-0x3FFF (lo), 0x4000-0x5FFF (hi) and 0x6000-0x7FFF (mode), 0      *)
(* before the first write, and whether a write has been made.              *)
(***************************************************************************)
\* cartridge types: MBC1 with RAM, MBC3 with RAM and battery
MbcTypes == {2, 19}

\* the mark in the first byte of bank b of the image
MbcMark(b) == b + 1

\* code 6 at ROM_SIZE_ADDR: 128 banks of 16 KiB; code 3 at RAM_SIZE_ADDR
MbcFile(type) ==
  LET header == (CARTRIDGE_TYPE_ADDR :> type) @@ (ROM_SIZE_ADDR :> 6)
                  @@ (RAM_SIZE_ADDR :> 3)
  IN [size |-> 128 * 16384,
      data |-> (HEADER_CHECKSUM_ADDR :>
                  header_checksum(header, HEADER_CHECKSUM_RANGE_END))
               @@ header
               @@ [a \in { b * 16384 : b \in 0 .. 127 }
                     |-> MbcMark(a \div 16384)]]

\* addresses written: RAM enable, ROM bank (two addresses), RAM bank or
\* upper ROM bank bits, banking mode
MbcAddrs == {0, 8192, 16383, 16384, 24576}

MbcValues == {0, 1, 10, 32, 33, 96, 127, 130}

InitMbc ==
  \E type \in MbcTypes :
    \E file \in {read_rom_data_from_file(MbcFile(type))} :
    \E e \in {init_emulator(file.rom_data)} :
      /\ reg = e.reg
      /\ interrupts = e.interrupts
      /\ timer = e.timer
      /\ lcd = e.lcd
      /\ dma = e.dma
      /\ sound = e.sound
      /\ joypad = e.joypad
      /\ serial = e.serial
      /\ palettes = e.palettes
      /\ cycles = e.cycles
      /\ ram = e.ram
      /\ hram = e.hram
      /\ oam = e.oam
      /\ vram = e.vram
      /\ rom = e.rom
      /\ memory_map = e.memory_map
      /\ external_ram = e.external_ram
      /\ drv = [pc |-> "mbc", type |-> type]
      /\ obs = [lo |-> 0, hi |-> 0, mode |-> 0, written |-> FALSE]

\* the CPU writes a byte to a register range of the controller
MbcWrite ==
  /\ \E addr \in MbcAddrs, value \in MbcValues :
       \E e1 \in {write_u8(Emu, addr, value)} :
         /\ Commit(e1)
         /\ obs' = [lo |-> IF addr \div 8192 = 1 THEN value ELSE obs.lo,
                    hi |-> IF addr \div 8192 = 2 THEN value ELSE obs.hi,
                    mode |-> IF addr \div 8192 = 3 THEN value ELSE obs.mode,
                    written |-> TRUE]
  /\ drv' = drv

NextMbc == MbcWrite

SpecMbc == InitMbc /\ [][NextMbc]_vars

(***************************************************************************)
(* Specification SpecObj: a program switches the LCD off, stores three     *)
(* solid tiles (tile i is palette index i in its rows 0 and 1), a number   *)
(* of sprites at the top of the screen and the identity palette in OBP0,   *)
(* and switches the LCD on with sprites enabled and the background and the *)
(* window disabled; time passes and lines are rendered.  Object 0 and      *)
(* object 1 are placed near the left edge, where they may overlap; object  *)
(* 2 is above the screen; the objects from 3 on follow each other from     *)
(* the left to the right without overlapping.                              *)
(***************************************************************************)
\* the X bytes of objects 0 and 1
ObjX0 == {0, 4, 8, 12}
ObjX1 == {4, 8, 12}

\* the number of objects the program stores
ObjCounts == {2, 12}

ObjScenes == [x0 : ObjX0, x1 : ObjX1, count : ObjCounts]

\* the four bytes the program stores for object n
ObjBytes(c, n) ==
  << IF n = 2 THEN 0 ELSE 16,
     IF n = 0 THEN c.x0 ELSE IF n = 1 THEN c.x1 ELSE 24 + 8 * n,
     1 + (n % 3),
     0 >>

ObjProgram(c) ==
  << << IO_START_ADDR + IO_LCDC_ADDR, 0 >>,
     << 32784, 255 >>, << 32785, 0 >>, << 32786, 255 >>, << 32787, 0 >>,
     << 32800, 0 >>, << 32801, 255 >>, << 32802, 0 >>, << 32803, 255 >>,
     << 32816, 255 >>, << 32817, 255 >>, << 32818, 255 >>, << 32819, 255 >>,
     << IO_START_ADDR + IO_OBP0_ADDR, 228 >> >>
  \o [i \in 1 .. 4 * c.count |->
        << OAM_START_ADDR + (i - 1),
           ObjBytes(c, (i - 1) \div 4)[((i - 1) % 4) + 1] >>]
  \o << << IO_START_ADDR + IO_LCDC_ADDR, 130 >> >>

\* the writes from the one numbered `from` to the one numbered `to`
ObjPart(p, from, to) ==
  IF from > Len(p) THEN << >>
  ELSE SubSeq(p, from, IF to < Len(p) THEN to ELSE Len(p))

InitObj ==
  \E c \in ObjScenes :
    \E p \in {ObjProgram(c)} :
    \E booted \in {init_emulator(RomData(<< >>))} :
    \E e1 \in {ApuRun(booted, ObjPart(p, 1, 16))} :
    \E e2 \in {ApuRun(e1, ObjPart(p, 17, 32))} :
    \E e3 \in {ApuRun(e2, ObjPart(p, 33, 48))} :
    \E e \in {ApuRun(e3, ObjPart(p, 49, Len(p)))} :
      /\ reg = e.reg
      /\ interrupts = e.interrupts
      /\ timer = e.timer
      /\ lcd = e.lcd
      /\ dma = e.dma
      /\ sound = e.sound
      /\ joypad = e.joypad
      /\ serial = e.serial
      /\ palettes = e.palettes
      /\ cycles = e.cycles
      /\ ram = e.ram
      /\ hram = e.hram
      /\ oam = e.oam
      /\ vram = e.vram
      /\ rom = e.rom
      /\ memory_map = e.memory_map
      /\ external_ram = e.external_ram
      /\ drv = [pc |-> "obj", scene |-> c]
      /\ obs = [elapsed |-> 0, rendered |-> NoRender]

\* the cycles of a few instructions pass
ObjAdvance ==
  /\ obs.elapsed < MaxObjCycles
  /\ \E k \in {10, 20} :
       \E e1 \in {SeqRun(Emu, 4 * k)} :
         /\ Commit(e1)
         /\ obs' = [elapsed |-> obs.elapsed + 4 * k,
                    rendered |->
                      IF DOMAIN e1.frame_buffer = {}
                        THEN obs.rendered
                        ELSE LET line_y ==
                                   CHOOSE y \in DOMAIN e1.frame_buffer : TRUE
                             IN [line_y |-> line_y,
                                 line_data |->
                                   render_line_data(e1.frame_buffer[line_y],
                                                    line_y)]]
  /\ drv' = drv

NextObj == ObjAdvance

SpecObj == InitObj /\ [][NextObj]_vars

(***************************************************************************)
(* Specification SpecNoise: the program starts channel 4 (DAC on, NR43     *)
(* with clock shift 0 and divisor code 1 or 2, trigger) in the 15-bit or   *)
(* the 7-bit mode; time passes, and the program may rewrite NR43, which    *)
(* switches the width of the LFSR.  obs.elapsed and obs.writes count.      *)
(***************************************************************************)
\* NR43 values: 15 bits and 7 bits with a period of 16 cycles, and with a
\* period of 32 cycles
NoiseNr43 == {1, 9, 2, 10}

NoiseProgram(nr43) ==
  << << APU_START_ADDR + APU_NR42_ADDR, 240 >>,
     << APU_START_ADDR + APU_NR43_ADDR, nr43 >>,
     << APU_START_ADDR + APU_NR44_ADDR, 128 >> >>

InitNoise ==
  \E nr43 \in NoiseNr43 :
    \E booted \in {init_emulator(RomData(<< >>))} :
    \E e \in {ApuRun(booted, NoiseProgram(nr43))} :
      /\ reg = e.reg
      /\ interrupts = e.interrupts
      /\ timer = e.timer
      /\ lcd = e.lcd
      /\ dma = e.dma
      /\ sound = e.sound
      /\ joypad = e.joypad
      /\ serial = e.serial
      /\ palettes = e.palettes
      /\ cycles = e.cycles
      /\ ram = e.ram
      /\ hram = e.hram
      /\ oam = e.oam
      /\ vram = e.vram
      /\ rom = e.rom
      /\ memory_map = e.memory_map
      /\ external_ram = e.external_ram
      /\ drv = [pc |-> "noise"]
      /\ obs = [elapsed |-> 0, writes |-> 0]

\* a 4-cycle or an 8-cycle instruction: at most one tick of the LFSR, whose
\* period is 16 cycles or more
NoiseAdvance ==
  /\ obs.elapsed < MaxNoiseCycles
  /\ \E k \in {1, 2} :
       \E e1 \in {update_cycles(Emu, 4 * k)} :
         /\ Commit(e1)
         /\ obs' = [obs EXCEPT !.elapsed = @ + 4 * k]
  /\ drv' = drv

\* the program rewrites NR43
NoiseWrite ==
  /\ obs.writes < MaxNoiseWrites
  /\ \E nr43 \in NoiseNr43 :
       \E e1 \in {write_u8(Emu, APU_START_ADDR + APU_NR43_ADDR, nr43)} :
         /\ Commit(e1)
         /\ obs' = [obs EXCEPT !.writes = @ + 1]
  /\ drv' = drv

NextNoise == NoiseAdvance \/ NoiseWrite

SpecNoise == InitNoise /\ [][NextNoise]_vars

(***************************************************************************)
(* Specification SpecChan: the four channels play, 8 master cycles before  *)
(* a step of the frame sequencer (the first, second or third after the     *)
(* boot, so that the step clocks the lengths, nothing, or the lengths and  *)
(* the sweep).  The program writes length, DAC, trigger and power          *)
(* registers before and after the step.  obs.elapsed and obs.writes count. *)
(***************************************************************************)
\* steps of the frame sequencer the run has reached when the program starts
ChanPhases == {1, 2, 3}

\* every length counter at 1 and, where the playing program left it off,
\* the length enabled
ApuShort ==
  << << APU_START_ADDR + APU_NR11_ADDR, 63 >>,
     << APU_START_ADDR + APU_NR21_ADDR, 63 >>,
     << APU_START_ADDR + APU_NR31_ADDR, 255 >>,
     << APU_START_ADDR + APU_NR41_ADDR, 63 >> >>

\* the writes of the program: length 1; DAC off and on; length enable,
\* trigger and both; power off and on
ChanWrites ==
  ({APU_NR11_ADDR, APU_NR21_ADDR, APU_NR41_ADDR} \X {63})
    \cup {<< APU_NR31_ADDR, 255 >>}
    \cup ({APU_NR12_ADDR, APU_NR22_ADDR, APU_NR42_ADDR} \X {0, 240})
    \cup ({APU_NR30_ADDR, APU_NR52_ADDR} \X {0, 128})
    \cup ({APU_NR14_ADDR, APU_NR24_ADDR, APU_NR34_ADDR, APU_NR44_ADDR}
            \X {64, 128, 192})

InitChan ==
  \E phase \in ChanPhases, short \in BOOLEAN :
    \E booted \in {init_emulator(RomData(<< >>))} :
    \E e0 \in {SeqRun(booted, phase * FRAME_SEQUENCER_CYCLES - 8)} :
    \E e1 \in {ApuRun([e0 EXCEPT !.log = << >>, !.chg = NoCharge],
                      ApuPlaying)} :
    \E e \in {IF short THEN ApuRun(e1, ApuShort) ELSE e1} :
      /\ reg = e.reg
      /\ interrupts = e.interrupts
      /\ timer = e.timer
      /\ lcd = e.lcd
      /\ dma = e.dma
      /\ sound = e.sound
      /\ joypad = e.joypad
      /\ serial = e.serial
      /\ palettes = e.palettes
      /\ cycles = e.cycles
      /\ ram = e.ram
      /\ hram = e.hram
      /\ oam = e.oam
      /\ vram = e.vram
      /\ rom = e.rom
      /\ memory_map = e.memory_map
      /\ external_ram = e.external_ram
      /\ drv = [pc |-> "chan"]
      /\ obs = [elapsed |-> 0, writes |-> 0]

\* a 4-cycle or an 8-cycle instruction; the second or a later one crosses
\* the step of the frame sequencer
ChanAdvance ==
  /\ obs.elapsed < MaxChanCycles
  /\ \E k \in {1, 2} :
       \E e1 \in {update_cycles(Emu, 4 * k)} :
         /\ Commit(e1)
         /\ obs' = [obs EXCEPT !.elapsed = @ + 4 * k]
  /\ drv' = drv

\* the program writes a sound register
ChanWrite ==
  /\ obs.writes < MaxChanWrites
  /\ \E w \in ChanWrites :
       \E e1 \in {write_u8(Emu, APU_START_ADDR + w[1], w[2])} :
         /\ Commit(e1)
         /\ obs' = [obs EXCEPT !.writes = @ + 1]
  /\ drv' = drv

NextChan == ChanAdvance \/ ChanWrite

SpecChan == InitChan /\ [][NextChan]_vars

(***************************************************************************)
(* Properties.                                                             *)
(***************************************************************************)
\* the record r of a step has k in its log
InLog(r, k) == \E i \in 1..Len(r.log) : r.log[i] = k

Units == {"dma", "lcd", "timer", "apu"}

\* IE & IF & 0x1F in a snapshot
Pending5(s) == BitAnd(BitAnd(s.IE, s.IF), 31)

\* the lowest bit set in a non-zero value below 32
LowestBit(x) ==
  CHOOSE b \in 0..4 :
    /\ (x \div 2 ^ b) % 2 = 1
    /\ \A c \in 0..(b - 1) : (x \div 2 ^ c) % 2 = 0

\* one-byte opcodes of the model that neither branch, halt nor exit
Straight == {0, 52, 60, 119, 126, 243, 251}

\* C1: every call of run_emulator_until_event terminates within a frame's
\* worth of steps.  The loop is deterministic, so a call that terminates
\* never repeats a state: no iteration that goes on leaves the emulator as
\* it found it.
C1_Terminates == ~obs.stuck

C3_EqualCharges ==
  LET r == obs.last IN
  r.valid =>
    /\ \A u \in Units : r.chg[u] = r.chg.dma
    /\ r.post.cycles - r.pre.cycles = r.chg.dma

\* C3 witness: a taken RET NZ (8 + 12 cycles) followed by a dispatch
C3_Witness ==
  LET r == obs.last IN
  r.valid /\ r.op = 192 /\ r.chg.apu = 20 /\ InLog(r, "dispatch")

\* C4, as the specification states it: the loop stops on the first step
\* after which an event condition holds, and the mask returned tells which
\* conditions hold at the return.
C4_StopsAtEvent ==
  (drv.pc = "call" /\ drv.returned) =>
    /\ drv.after = 0
    /\ (BitAnd(drv.event, EMULATOR_EVENT_NEW_FRAME) # 0)
         <=> lcd.new_frame_edge
    /\ (BitAnd(drv.event, EMULATOR_EVENT_SOUND_BUFFER_FULL) # 0)
         <=> (Samples(Emu) >= RequestedSamples)


\* the instruction records i, i+1, ... of the history
Hist == obs.hist
HistIx == 1..Len(obs.hist)

\* the record r is a HALT executed with IME = 0
HaltIME0(r) == r.op = 118 /\ ~r.mid.IME

\* no interrupt was dispatched in the step of record r
NoDispatch(r) ==
  /\ ~InLog(r, "dispatch")
  /\ r.post.IF = r.mid.IF
  /\ r.post.SP = r.mid.SP
  /\ r.post.PC = r.mid.PC

\* what C5 promises of a HALT at history index i
HaltBug(i) ==
  /\ ~Hist[i].post.halt
  /\ NoDispatch(Hist[i])
  /\ (i + 1 \in HistIx /\ Hist[i + 1].op \in Straight) =>
       \* the first execution: fetched right after HALT, PC stays
       /\ Hist[i + 1].at = Hist[i].mid.PC
       /\ Hist[i + 1].mid.PC = Hist[i + 1].at
       /\ (i + 2 \in HistIx) =>
            \* the second execution: the same opcode, and PC moves on
            /\ Hist[i + 2].at = Hist[i + 1].at
            /\ Hist[i + 2].op = Hist[i + 1].op
            /\ Hist[i + 2].mid.PC = U16(Hist[i + 2].at + 1)
            /\ (Hist[i + 1].op = 60) =>
                 Hist[i + 2].post.A = U8(Hist[i].post.A + 2)

C6_HaltResumesOnce ==
  /\ \A i \in HistIx :
       (HaltIME0(Hist[i]) /\ BitAnd(Hist[i].mid.IE, Hist[i].mid.IF) = 0) =>
         /\ Hist[i].post.halt
         /\ (i + 1 \in HistIx /\ Hist[i + 1].op \in Straight) =>
              /\ Hist[i + 1].at = Hist[i].mid.PC
              /\ Hist[i + 1].mid.PC = U16(Hist[i + 1].at + 1)
  /\ (obs.last.valid /\ obs.last.idle /\ ~obs.last.pre.IME) =>
       NoDispatch(obs.last)

\* the byte that follows the one-byte instruction of record r in the ROM
NextInRom(r) == IF r.at + 1 < RomSize THEN Get(rom.data, r.at + 1) ELSE -1

\* C7: EI immediately followed by DI in the program, begun with IME = 0 and
\* an enabled interrupt pending: EI dispatches nothing, the next instruction
\* executed is that DI, it dispatches nothing either, and IME is 0 after it.
C7_EiDiNoDispatch ==
  \A i \in HistIx :
    ( /\ Hist[i].op = 251 /\ NextInRom(Hist[i]) = 243
      /\ ~Hist[i].pre.IME /\ ~Hist[i].pre.enable
      /\ Pending5(Hist[i].pre) # 0 ) =>
        /\ NoDispatch(Hist[i])
        /\ Hist[i].post.PC = U16(Hist[i].at + 1)
        /\ (i + 1 \in HistIx) =>
             /\ Hist[i + 1].op = 243
             /\ Hist[i + 1].at = U16(Hist[i].at + 1)
             /\ NoDispatch(Hist[i + 1])
             /\ ~Hist[i + 1].post.IME
             /\ ~Hist[i + 1].post.enable
             /\ Hist[i + 1].post.SP = Hist[i].pre.SP
             /\ Hist[i + 1].post.PC = U16(Hist[i].at + 2)

\* C7 witness: EI and DI have run with an interrupt pending throughout
C7_Witness ==
  /\ Len(Hist) = 2
  /\ Hist[1].op = 251 /\ Hist[2].op = 243
  /\ ~Hist[1].pre.IME /\ ~Hist[1].pre.enable
  /\ Pending5(Hist[1].pre) # 0
  /\ Pending5(Hist[2].post) # 0

\* C8: a dispatch services the lowest bit set in IE & IF & 0x1F: only that
\* bit of IF is cleared, IME becomes 0, the address of the next instruction
\* is pushed at SP-2, PC becomes 0x40 + 8 * bit, and halt is cleared.
C8_Dispatch ==
  LET r == obs.last
      bit == LowestBit(Pending5(r.mid))
      sp == r.post.SP
  IN (r.valid /\ InLog(r, "dispatch")) =>
       /\ Pending5(r.mid) # 0
       /\ r.mid.IME \/ r.mid.halt
       /\ r.post.IF = r.mid.IF - 2 ^ bit
       /\ ~r.post.IME
       /\ sp = U16(r.mid.SP - 2)
       /\ r.post.PC = 64 + 8 * bit
       /\ ~r.post.halt
       /\ (sp >= HIGH_RAM_START_ADDR /\ sp < HIGH_RAM_END_ADDR) =>
            /\ Get(hram, sp - HIGH_RAM_START_ADDR) = r.mid.PC % 256
            /\ Get(hram, sp + 1 - HIGH_RAM_START_ADDR) = r.mid.PC \div 256

\* C8 witness: LCD STAT, timer, serial and joypad are pending, VBlank is
\* not enabled; the dispatch went to 0x48 and the return address is on the
\* stack
C8_Witness ==
  LET r == obs.last IN
  /\ r.valid /\ InLog(r, "dispatch")
  /\ Pending5(r.mid) = 30
  /\ r.post.PC = 72
  /\ r.post.SP = 65532
  /\ Get(hram, 124) + 256 * Get(hram, 125) = r.mid.PC

\* C9: a step that dispatches an interrupt charges DMA, PPU, timer and APU
\* 20 cycles more than the instruction alone.
C9_DispatchCharges20 ==
  LET r == obs.last IN
  (r.valid /\ InLog(r, "dispatch")) =>
    /\ \A u \in Units : r.chg[u] = r.midchg[u] + 20
    /\ r.post.cycles = r.mid.cycles + 20

\* the PPU's position in the current frame, in cycles: the lines done, the
\* modes of the current line done, and the cycles into the current mode
FramePos ==
  lcd.LY * LINE_CYCLES + lcd.cycles
  + CASE lcd.stat.mode = LCD_MODE_USING_OAM_VRAM -> USING_OAM_CYCLES
      [] lcd.stat.mode = LCD_MODE_HBLANK ->
           USING_OAM_CYCLES + USING_OAM_VRAM_CYCLES
      [] OTHER -> 0

\* C10: with the LCD enabled, consecutive frame starts are exactly 70224
\* charged cycles apart on the PPU's timeline, whatever the chunks: the
\* position in the frame is the number of cycles charged since the frame
\* started, it stays below 70224, and every frame start measured is 70224
\* cycles after the one before.
C10_FrameLength ==
  /\ obs.gap # -1 => obs.gap = FRAME_CYCLES
  /\ FramePos = obs.total - obs.start
  /\ FramePos < FRAME_CYCLES

\* C10 witness: the second frame has started, 70224 cycles after the
\* first, in the middle of a chunk
C10_Witness ==
  /\ lcd.frame = MaxFrames
  /\ obs.gap = FRAME_CYCLES
  /\ lcd.cycles > 0

\* the length of the PPU's current mode in cycles
ModeLength ==
  CASE lcd.stat.mode = LCD_MODE_USING_OAM -> USING_OAM_CYCLES
    [] lcd.stat.mode = LCD_MODE_USING_OAM_VRAM -> USING_OAM_VRAM_CYCLES
    [] lcd.stat.mode = LCD_MODE_HBLANK -> HBLANK_CYCLES
    [] lcd.stat.mode = LCD_MODE_VBLANK -> VBLANK_CYCLES

\* C11: with the LCD enabled, after every advance and every LCDC write LY is
\* in 0..153, and LY >= 144 exactly when the STAT mode is VBlank.
C11_LyRange ==
  lcd.lcdc.display =>
    /\ lcd.LY \in 0..(SCREEN_HEIGHT_WITH_VBLANK - 1)
    /\ (lcd.LY >= SCREEN_HEIGHT) <=> (lcd.stat.mode = LCD_MODE_VBLANK)

\* C11 witness: the display was switched on by an LCDC write and the PPU
\* has reached the vertical blanking lines since
C11_Witness ==
  /\ obs.switched /\ lcd.lcdc.display
  /\ lcd.LY >= SCREEN_HEIGHT
  /\ lcd.stat.mode = LCD_MODE_VBLANK

\* C12: after every advance and every LCDC write the cycles into the current
\* mode are fewer than the length of that mode.
C12_ModeCycles == lcd.cycles < ModeLength

\* C12 witness: an advance right after the display was switched on ends
\* within 4 cycles of the end of the HBlank mode
C12_Witness ==
  /\ obs.switched /\ lcd.lcdc.display
  /\ lcd.stat.mode = LCD_MODE_HBLANK
  /\ lcd.cycles = HBLANK_CYCLES - 4

\* master cycles per TIMA tick for the clock selects 0..3
\* (4096, 262144, 65536 and 16384 Hz of the 4194304 Hz master clock)
TimerPeriod(sel) == << 1024, 16, 64, 256 >>[sel + 1]

\* the iteration that produced trace entry j ticked TIMA
TickAt(j) == obs.trace[j].div % TimerPeriod(obs.program.tac % 4) = 0

\* C13: a tick that wraps TIMA from 0xFF leaves TIMA = 0 and IF bit 2 as it
\* was; the next iteration, 4 master cycles later, loads TMA into TIMA and
\* sets IF bit 2.
C13_ReloadDelay ==
  \A j \in 1..(Len(obs.trace) - 1) :
    (obs.trace[j].TIMA = 255 /\ TickAt(j + 1)) =>
      /\ obs.trace[j + 1].TIMA = 0
      /\ obs.trace[j + 1].IF2 = obs.trace[j].IF2
      /\ (j + 2 <= Len(obs.trace)) =>
           /\ obs.trace[j + 2].TIMA = obs.trace[j + 2].TMA
           /\ obs.trace[j + 2].IF2

\* C13 witness: the first overflow, with IF bit 2 clear before it, and the
\* reload that follows it with a TMA other than 0
C13_Witness ==
  LET n == Len(obs.trace) IN
  /\ n >= 3
  /\ obs.trace[n - 2].TIMA = 255 /\ ~obs.trace[n - 2].IF2
  /\ obs.trace[n - 1].TIMA = 0 /\ obs.trace[n - 1].overflow
  /\ obs.trace[n].IF2
  /\ obs.program.tma # 0

\* the program of C14: TAC = 0x05, TMA = TIMA = 0xFE, DIV reset just before
C14_Program == [tac |-> 5, tma |-> 254, tima |-> 254, phase |-> 0]

\* TIMA and IF bit 2 when `elapsed` cycles have passed, for a tick period p
C14_Timeline(p) ==
  obs.program = C14_Program =>
    /\ obs.elapsed < p => timer.TIMA = 254
    /\ (obs.elapsed >= p /\ obs.elapsed < 2 * p) => timer.TIMA = 255
    /\ (obs.elapsed >= 2 * p /\ obs.elapsed < 2 * p + 4) =>
         timer.TIMA = 0
    /\ obs.elapsed < 2 * p + 4 =>
         BitAnd(interrupts.IF, INTERRUPT_TIMER_MASK) = 0
    /\ (obs.elapsed >= 2 * p + 4 /\ obs.elapsed < 3 * p) =>
         /\ timer.TIMA = 254
         /\ BitAnd(interrupts.IF, INTERRUPT_TIMER_MASK) # 0

\* C14 as stated: TIMA is 0xFF after 64 master cycles, overflows after 128,
\* and is 0xFE with IF bit 2 set 4 cycles after that.
C14_Period64 == C14_Timeline(64)

\* C14: with TAC = 0x05 the tick period is 16 master cycles: TIMA is 0xFF
\* after 16 cycles, overflows after 32, and 4 cycles later TIMA = 0xFE and
\* IF bit 2 is set.
C14_Period16 == C14_Timeline(16)

\* C14 witness: 36 cycles into the program, TIMA reloaded and IF bit 2 set
C14_Witness ==
  /\ obs.program = C14_Program
  /\ obs.elapsed = 36
  /\ timer.TIMA = 254
  /\ BitAnd(interrupts.IF, INTERRUPT_TIMER_MASK) # 0

\* address ranges of the memory map, as the hardware documents them
InHram(a) == a \in 65408..65534
InVram(a) == a \in 32768..40959
InOam(a) == a \in 65024..65183

\* the DMA reads its source from video RAM
SourceIsVram == InVram(obs.page * 256)

\* the access a is one a running DMA shuts out
Blocked(a) ==
  /\ a.active
  /\ ~InHram(a.addr)
  /\ ~(SourceIsVram /\ ~InVram(a.addr) /\ ~InOam(a.addr))

\* C15: while a DMA is active a CPU read outside HRAM returns 0xFF and a CPU
\* write outside HRAM changes nothing, unless the source is VRAM and the
\* address is neither in VRAM nor in OAM; every other access goes through
\* as without DMA, and a byte written to HRAM reads back unchanged.
C15_DmaAccess ==
  LET a == obs.last IN
  /\ a.kind = "read" =>
       a.value = IF Blocked(a) THEN INVALID_READ_BYTE ELSE a.free
  /\ a.kind = "write" =>
       /\ Blocked(a) => a.same
       /\ ~Blocked(a) => a.free
       /\ InHram(a.addr) => a.back = a.value

\* C15 witness: during a DMA from work RAM a byte was written to HRAM and
\* read back
C15_Witness ==
  /\ obs.last.kind = "write" /\ obs.last.active
  /\ ~SourceIsVram
  /\ InHram(obs.last.addr)
  /\ obs.last.back = 90

\* the byte a CPU read of OAM offset i returns when the PPU leaves OAM alone
OamByte(i) == read_oam([Emu EXCEPT !.lcd.stat.mode = LCD_MODE_HBLANK], i)

\* C16: a DMA from work RAM that the CPU does not write into copies one
\* byte per 4 master cycles whatever the PPU mode; it is active, and a read
\* of 0x8000 returns 0xFF, until 648 cycles have been charged; from then on
\* it is inactive and OAM bytes 0..159 are the source bytes.
C16_DmaCopy ==
  (obs.page = 192 /\ obs.writes = 0) =>
    /\ dma.addr_offset =
         IF obs.elapsed \div 4 < OAM_TRANSFER_SIZE
           THEN obs.elapsed \div 4 ELSE OAM_TRANSFER_SIZE
    /\ \A i \in 0..(dma.addr_offset - 1) : OamByte(i) = Pattern(i)
    /\ obs.elapsed < DMA_CYCLES =>
         /\ dma.active
         /\ read_u8(Emu, 32768) = INVALID_READ_BYTE
    /\ obs.elapsed >= DMA_CYCLES =>
         /\ ~dma.active
         /\ dma.addr_offset = OAM_TRANSFER_SIZE

\* C16 witness: the DMA from work RAM has just completed while the PPU is
\* using OAM
C16_Witness ==
  /\ obs.page = 192 /\ obs.writes = 0
  /\ obs.elapsed >= DMA_CYCLES
  /\ ~dma.active
  /\ is_using_oam(Emu)
  /\ OamByte(OAM_TRANSFER_SIZE - 1) = Pattern(OAM_TRANSFER_SIZE - 1)

\* the conditional jumps, calls and returns of the model, and whether the
\* one that ran was taken
JrOps == {32, 40}
JpOps == {194, 202}
CallOps == {196, 204}
RetOps == {192, 200}
Taken == IF obs.op \in {32, 192, 194, 196} THEN ~obs.z ELSE obs.z

\* a taken branch charges what the branch not taken charges, plus p
Penalty(ops, p) ==
  (drv.done /\ obs.op \in ops /\ Taken) =>
    \A u \in Units : obs.rec.chg[u] = obs.alt[u] + p

\* every cost in s_opcode_cycles and every charge of a step is a multiple
\* of 4
CostsMultipleOf4 ==
  /\ \A i \in 1..Len(s_opcode_cycles) : s_opcode_cycles[i] % 4 = 0
  /\ drv.done => \A u \in Units : obs.rec.chg[u] % 4 = 0

C18_StopIsNop ==
  (drv.done /\ obs.op = 16) =>
    /\ ~obs.exited
    /\ \A u \in Units : obs.rec.chg[u] = 4
    /\ cycles = obs.rec.pre.cycles + 4
    /\ reg.PC > obs.pre.reg.PC
    /\ [reg EXCEPT !.PC = obs.pre.reg.PC] = obs.pre.reg
    /\ ram = obs.pre.ram /\ hram = obs.pre.hram
    /\ oam = obs.pre.oam /\ vram = obs.pre.vram

\* the last step wrote value to the sound register at offset r of the block
ApuWrote(r) ==
  /\ obs.last.kind = "write"
  /\ obs.last.addr = APU_START_ADDR + r

\* struct Sound is as before the write, but for the length of channel c
OnlyLength(c) ==
  [sound EXCEPT !.channel[c].length = obs.last.before.channel[c].length]
    = obs.last.before

\* C19: while the sound hardware is powered off, a write to any sound
\* register other than NR11, NR21, NR31, NR41 and NR52 changes nothing; a
\* write to NR11, NR21 or NR41 changes only the length counter of that
\* channel (the duty stays), and a write to NR31 only the length of channel 3
C19_PoweredOffWrites ==
  \A r \in 0 .. (WAVE_RAM_START_ADDR - APU_START_ADDR - 1) :
    (ApuWrote(r) /\ ~obs.last.before.enabled) =>
      /\ obs.last.rest
      /\ r \notin {APU_NR11_ADDR, APU_NR21_ADDR, APU_NR31_ADDR,
                   APU_NR41_ADDR, APU_NR52_ADDR}
           => sound = obs.last.before
      /\ r = APU_NR11_ADDR => OnlyLength(CHANNEL1)
      /\ r = APU_NR21_ADDR => OnlyLength(CHANNEL2)
      /\ r = APU_NR31_ADDR => OnlyLength(CHANNEL3)
      /\ r = APU_NR41_ADDR => OnlyLength(CHANNEL4)

\* a powered-off write to NR11 whose duty bits differ from the duty kept,
\* and which changed the length
C19_Witness ==
  /\ ApuWrote(APU_NR11_ADDR)
  /\ ~obs.last.before.enabled
  /\ DECODE(obs.last.value, 7, 6) # sound.channel[CHANNEL1].square_wave.duty
  /\ sound.channel[CHANNEL1].length
       # obs.last.before.channel[CHANNEL1].length

\* the sound registers NR10..NR51
ApuRegs ==
  (0 .. (APU_REG_COUNT - 1)) \ {5, 15, APU_NR52_ADDR}

\* the last step wrote NR52 with bit 7 clear while the power was on
PoweredOff ==
  /\ ApuWrote(APU_NR52_ADDR)
  /\ obs.last.before.enabled
  /\ DECODE(obs.last.value, 7, 7) = 0

\* C20: after NR52 is written with bit 7 clear while the power is on, the
\* four status bits are 0, NR52 reads 0x70, every register NR10..NR51 reads
\* back its mask of unused bits and is as a write of 0 leaves it (writing 0
\* to it with the power on changes nothing more), and the wave RAM is as
\* before
C20_PowerOff ==
  PoweredOff =>
    /\ \A c \in 0 .. (CHANNEL_COUNT - 1) : ~sound.channel[c].status
    /\ read_u8(Emu, APU_START_ADDR + APU_NR52_ADDR) = 112
    /\ \A r \in ApuRegs :
         /\ read_u8(Emu, APU_START_ADDR + r) = apu_mask[r + 1]
         /\ write_apu([Emu EXCEPT !.sound.enabled = TRUE], r, 0)
              = [Emu EXCEPT !.sound.enabled = TRUE]
    /\ sound.wave.ram = obs.last.before.wave.ram
    /\ ~sound.enabled

\* the power was switched off while all four channels played, the output
\* selectors were set and the wave RAM held the program's bytes
C20_Witness ==
  /\ PoweredOff
  /\ \A c \in 0 .. (CHANNEL_COUNT - 1) : obs.last.before.channel[c].status
  /\ obs.last.before.so1_output[SOUND2] = 1
  /\ Get(sound.wave.ram, 0) = 18
  /\ read_u8([Emu EXCEPT !.sound = obs.last.before],
             APU_START_ADDR + APU_NR51_ADDR) = 90

\* powered-on master cycles charged to the sound unit so far, counted from
\* the last time frame_cycles was zero
SeqCharged == obs.phase + obs.elapsed

\* the sequencer stepped in the last advance
SeqStepped == sound.frame # obs.before.frame

\* C21: while the sound unit is powered on the frame sequencer advances one
\* step per 8192 master cycles charged to it, through the steps 0..7 in
\* order; the length counters are clocked exactly on the steps 0, 2, 4 and
\* 6, the sweep of channel 1 exactly on the steps 2 and 6, and the envelopes
\* exactly on step 7.
C21_FrameSequencer ==
  (drv.pc = "seq" /\ sound.enabled) =>
    /\ sound.frame \in 0 .. 7
    /\ sound.frame_cycles = SeqCharged % FRAME_SEQUENCER_CYCLES
    /\ sound.frame =
         (7 + (SeqCharged \div FRAME_SEQUENCER_CYCLES)) % FRAME_SEQUENCER_COUNT
    /\ SeqStepped <=>
         (SeqCharged \div FRAME_SEQUENCER_CYCLES
            # (SeqCharged - obs.charged) \div FRAME_SEQUENCER_CYCLES)
    /\ SeqStepped => sound.frame = (obs.before.frame + 1) % 8
    /\ \A c \in {CHANNEL1, CHANNEL4} :
         SeqSnap(sound).length[c] =
           IF SeqStepped /\ sound.frame \in {0, 2, 4, 6}
             THEN obs.before.length[c] - 1 ELSE obs.before.length[c]
    /\ \A c \in {CHANNEL2, CHANNEL3} :
         SeqSnap(sound).length[c] = obs.before.length[c]
    /\ (SeqSnap(sound).sweep # obs.before.sweep)
         <=> (SeqStepped /\ sound.frame \in {2, 6})
    /\ \A c \in {CHANNEL1, CHANNEL2, CHANNEL4} :
         (SeqSnap(sound).envelope[c] # obs.before.envelope[c])
           <=> (SeqStepped /\ sound.frame = 7)

\* the sequencer has wrapped from step 7 to step 0 and gone on to step 6,
\* where the last advance clocked the sweep and the length counters
C21_Witness ==
  /\ drv.pc = "seq"
  /\ sound.enabled
  /\ obs.steps = 7
  /\ SeqStepped
  /\ sound.frame = 6
  /\ obs.phase = 8000
  /\ SeqSnap(sound).sweep # obs.before.sweep
  /\ SeqSnap(sound).length[CHANNEL1] = obs.before.length[CHANNEL1] - 1

\* the last step was a trigger of channel 3
WaveTriggered == drv.pc = "wave" /\ obs.last # NoAccess

\* wave RAM byte j after a corruption that goes by byte position p and the
\* byte read
Corrupted(wram, p, byte, j) ==
  IF j >= 4 THEN Get(wram, j)
  ELSE IF p <= 3 THEN (IF j = 0 THEN byte ELSE Get(wram, j))
  ELSE Get(wram, 4 * (p \div 4) + j)

CartAccess(k, lo, hi) ==
  /\ drv.pc = "loop"
  /\ obs.last.kind = k
  /\ obs.last.addr \in lo .. hi

\* banks of 16 KiB in the ROM image
CartBanks == rom.size \div 16384

\* the bank that the address a of the ROM ranges reads from
CartBankOf(a) == IF a < 16384 THEN 0 ELSE memory_map.rom_bank

\* C23 as stated: a CPU write to 0x0000-0x7FFF never changes the ROM
\* contents, only the state of the memory bank controller may change
\* (nothing at all without one), and a read of that address afterwards
\* returns a byte of the ROM image.
C23_RomWriteReadsImage ==
  CartAccess("write", 0, 32767) =>
    /\ rom = obs.last.before.rom
    /\ external_ram = obs.last.before.external_ram
    /\ obs.last.rest
    /\ s_mbc_type(drv.cart.type) = "NO_MBC"
         => memory_map = obs.last.before.memory_map
    /\ \E b \in 0 .. (CartBanks - 1) :
         read_u8(Emu, obs.last.addr) = CartMark(b, obs.last.addr % 16384)

\* C23 as the code has it: the ROM never changes and only the controller
\* state may; the read afterwards returns the image's byte at that offset
\* of the selected bank, or 0xFF when the selected bank is past the end of
\* the image.
C23_RomWrite ==
  CartAccess("write", 0, 32767) =>
    /\ rom = obs.last.before.rom
    /\ external_ram = obs.last.before.external_ram
    /\ obs.last.rest
    /\ s_mbc_type(drv.cart.type) = "NO_MBC"
         => memory_map = obs.last.before.memory_map
    /\ read_u8(Emu, obs.last.addr) =
         IF CartBankOf(obs.last.addr) < CartBanks
           THEN CartMark(CartBankOf(obs.last.addr), obs.last.addr % 16384)
           ELSE 255

\* a write of 1 to 0x4000 has selected bank 33 of an MBC1 cartridge with
\* four banks, and the read of 0x4000 returns 0xFF
C23_Witness ==
  /\ CartAccess("write", 16384, 16384)
  /\ obs.last.value = 1
  /\ drv.cart.type = 2
  /\ CartBanks = 4
  /\ memory_map.rom_bank = 33
  /\ memory_map # obs.last.before.memory_map
  /\ read_u8(Emu, 16384) = 255

\* the cartridge has no external RAM at all, or its RAM is disabled
CartNoRam(m, x) == x.size = 0 \/ ~m.ext_ram_enabled

\* C24: a CPU read from 0xA000-0xBFFF returns 0xFF whenever the external
\* RAM is disabled or the cartridge has none, a write in those situations
\* changes no state, and neither access fails.
C24_NoRamAccess ==
  /\ (CartAccess("read", 40960, 49151)
        /\ CartNoRam(memory_map, external_ram))
       => obs.last.value = 255
  /\ (CartAccess("write", 40960, 49151)
        /\ CartNoRam(obs.last.before.memory_map,
                     obs.last.before.external_ram))
       => /\ CartSnap = obs.last.before
          /\ obs.last.rest

\* the address of external RAM that the access to a selects
CartRamAddr(m, a) == m.ext_ram_bank * 8192 + (a - 40960)

\* the access goes through an enabled bank of the external RAM, at an
\* address past the end of that RAM
CartPastRam(m, x, a) ==
  /\ m.ext_ram_enabled
  /\ s_mbc_type(drv.cart.type) # "MBC2"
  /\ s_external_ram_type(drv.cart.type) = "WITH_RAM"
  /\ CartRamAddr(m, a) >= x.size

\* C25: an access through a selected bank beyond the cartridge's size is
\* clamped: a read from a ROM bank or an enabled external RAM bank at an
\* address past the end of the ROM or RAM returns 0xFF, and a write to such
\* an address of the external RAM changes no byte of it.
C25_Clamped ==
  /\ (CartAccess("read", 16384, 32767)
        /\ memory_map.rom_bank * 16384 + (obs.last.addr - 16384) >= rom.size)
       => obs.last.value = 255
  /\ (CartAccess("read", 40960, 49151)
        /\ CartPastRam(memory_map, external_ram, obs.last.addr))
       => obs.last.value = 255
  /\ (CartAccess("write", 40960, 49151)
        /\ CartPastRam(obs.last.before.memory_map,
                       obs.last.before.external_ram, obs.last.addr))
       => external_ram = obs.last.before.external_ram

\* the controllers that init_memory_map has no memory map for: MMM01, MBC4,
\* MBC5, TAMA5, HUC3, HUC1
CartUnsupported ==
  drv.cart.type \in (11 .. 13) \cup (21 .. 30) \cup (253 .. 255)

\* bytes in the image that the header of the image declares
CartDeclared == 32768 * 2 ^ drv.cart.rom_code

\* C26 as stated: construction fails, and no emulator is created or run,
\* whenever the ROM is smaller than 32 KiB, the header checksum does not
\* match, or the cartridge type is an unsupported controller.
C26_ConstructionFails ==
  (drv.pc \in {"loop", "error"}
     /\ (\/ drv.cart.size < 32768
         \/ ~drv.cart.checksum_ok
         \/ CartUnsupported))
    => (drv.pc = "error" /\ drv.result = "ERROR")

\* C26 as the code has it: construction fails exactly when the ROM is
\* smaller than 32 KiB, its length differs from the size its header
\* declares, or the controller is unsupported; the header checksum decides
\* nothing; after a failure the CPU state is never initialised and nothing
\* is run.
C26_Construction ==
  drv.pc \in {"loop", "error"} =>
    /\ (drv.pc = "error") <=>
         (\/ drv.cart.size < 32768
          \/ drv.cart.size # CartDeclared
          \/ CartUnsupported)
    /\ drv.pc = "error" =>
         /\ drv.result = "ERROR"
         /\ obs.last = NoAccess
         /\ reg = ZERO_MEMORY.reg
         /\ sound = ZERO_MEMORY.sound
    /\ drv.pc = "loop" =>
         /\ drv.result = "OK"
         /\ reg.PC = EntryPC

\* the image of an MBC5 cartridge, of the declared length and with the
\* right checksum, was refused
C26_Witness ==
  /\ drv.pc = "error"
  /\ drv.cart.type = 27
  /\ drv.cart.size = CartDeclared
  /\ drv.cart.checksum_ok
  /\ rom.size = drv.cart.size
  /\ reg.PC = 0

\* a line was rendered with the LCD on and BG_DISPLAY = 0
RenderedBgOff ==
  /\ obs.rendered.line_y # 255
  /\ obs.rendered.lcdc.display
  /\ obs.rendered.lcdc.bg_display = 0

\* the palette index of the scene's sprite at pixel sx of the rendered
\* line, 0 where the sprite is absent or transparent
SpriteIndex(sx) ==
  LET n == (sx - (drv.x - OBJ_X_OFFSET)) % 256
      flipped == (drv.byte3 \div 32) % 2 = 1
  IN IF obs.rendered.lcdc.obj_display = 1 /\ obs.rendered.line_y < 2 /\ n < 8
       THEN IF (n < 4) = flipped THEN 2 ELSE 1
       ELSE 0

\* the colour of the sprite's index i: OBP0 is 0xE4 and OBP1 is 0x1B
SpriteRgba(i) ==
  s_color_to_rgba(IF (drv.byte3 \div 16) % 2 = 1 THEN 3 - i ELSE i)

\* the window of the scene covers the pixel sx
WindowCovers(sx) == obs.rendered.lcdc.window_display = 1 /\ sx >= 8

\* C27 as stated: with the LCD on and BG_DISPLAY = 0 every background
\* pixel of a rendered line is shown in the colour that BGP maps index 0
\* to, whatever BGP is, and a sprite with the behind-BG bit is drawn as if
\* no background pixel conflicted with it.
C27_BgOffBgpColour ==
  RenderedBgOff =>
    \A sx \in 0 .. SCREEN_WIDTH - 1 :
      ~WindowCovers(sx) =>
        obs.rendered.line_data[sx] =
          IF SpriteIndex(sx) # 0
            THEN SpriteRgba(SpriteIndex(sx))
            ELSE s_color_to_rgba(obs.rendered.bgp[1])

\* C27 as the code has it: with the LCD on and BG_DISPLAY = 0 every
\* background pixel of a rendered line is white, whatever BGP is, and a
\* sprite with the behind-BG bit is drawn as if no background pixel
\* conflicted with it.
C27_BgOffWhite ==
  RenderedBgOff =>
    \A sx \in 0 .. SCREEN_WIDTH - 1 :
      ~WindowCovers(sx) =>
        obs.rendered.line_data[sx] =
          IF SpriteIndex(sx) # 0
            THEN SpriteRgba(SpriteIndex(sx))
            ELSE RGBA_WHITE

\* line 0 was rendered with the background off and BGP mapping index 0 to
\* black: the sprite, behind the background, shows at pixel 0 and the
\* pixel 100 is white
C27_Witness ==
  /\ RenderedBgOff
  /\ obs.rendered.line_y = 0
  /\ obs.rendered.bgp[1] = COLOR_BLACK
  /\ obs.rendered.lcdc.obj_display = 1
  /\ drv.byte3 = 128
  /\ drv.x = 8
  /\ obs.rendered.line_data[0] = RGBA_LIGHT_GRAY
  /\ obs.rendered.line_data[100] = RGBA_WHITE

\* the CPU has halted in the program LD SP,nn; XOR A; LDH (n),A; HALT
ProgS1Halted == drv.pc = "prog" /\ drv.run.kind = "s1" /\ interrupts.halt

\* the address of the HALT opcode of that program
ProgS1Halt == EntryPC + 6

\* C28 as stated: running LD SP,0xFFFE; XOR A; LDH (0x05),A; HALT from the
\* state after construction until the CPU halts leaves A = 0, SP = 0xFFFE,
\* TIMA = 0, the CPU halted, and PC pointing at the HALT opcode.
C28_HaltedAtHalt ==
  ProgS1Halted =>
    /\ reg.A = 0
    /\ reg.SP = drv.run.nn
    /\ drv.run.n = 5 => timer.TIMA = 0
    /\ reg.PC = ProgS1Halt

\* C28 as the code has it: the same, with PC pointing at the byte after
\* the HALT opcode.
C28_HaltedAfterHalt ==
  ProgS1Halted =>
    /\ reg.A = 0
    /\ reg.SP = drv.run.nn
    /\ drv.run.n = 5 => timer.TIMA = 0
    /\ reg.PC = ProgS1Halt + 1

\* the program of the claim has just halted, after four instructions
C28_Witness ==
  /\ ProgS1Halted
  /\ drv.run.nn = 65534
  /\ drv.run.n = 5
  /\ obs.steps = 4
  /\ obs.op = 118
  /\ reg.A = 0
  /\ timer.TIMA = 0
  /\ reg.PC = 263

\* the byte of high RAM at the address a
ProgHram(a) == Get(hram, a - HIGH_RAM_START_ADDR)

\* 1 for a set flag
ProgBit(b) == IF b THEN 1 ELSE 0

\* C29: every read of the flag register has its low nibble zero: PUSH AF
\* always stores F as Z<<7 | N<<6 | H<<5 | C<<4 (below A), and POP AF of
\* any 16-bit value followed by PUSH AF yields that value with bits 3..0
\* cleared.
C29_FlagNibble ==
  (drv.pc = "prog" /\ obs.op = 245) =>
    /\ ProgHram(reg.SP) =
         128 * ProgBit(reg.F.Z) + 64 * ProgBit(reg.F.N)
           + 32 * ProgBit(reg.F.H) + 16 * ProgBit(reg.F.C)
    /\ ProgHram(reg.SP) % 16 = 0
    /\ ProgHram(reg.SP + 1) = reg.A
    /\ drv.run.kind = "af" =>
         /\ reg.SP = 65408
         /\ ProgHram(65408) + 256 * ProgHram(65409)
              = drv.run.v - (drv.run.v % 16)

\* POP AF loaded 0x12A5 and PUSH AF stored 0x12A0
C29_Witness ==
  /\ drv.pc = "prog"
  /\ drv.run.kind = "af"
  /\ drv.run.v = 4773
  /\ obs.op = 245
  /\ ProgHram(65408) = 160
  /\ ProgHram(65409) = 18
  /\ reg.F = [Z |-> TRUE, N |-> FALSE, H |-> TRUE, C |-> FALSE]

\* cycles the PPU stays in the mode m before update_lcd_cycles moves on: in
\* VBlank, the cycles of one of its lines
PpuStay(m) ==
  CASE m = LCD_MODE_USING_OAM -> 80
    [] m = LCD_MODE_USING_OAM_VRAM -> 172
    [] m = LCD_MODE_HBLANK -> 204
    [] m = LCD_MODE_VBLANK -> 456

\* the step charged a chunk that completed the cycles of the current mode
PpuModeEnds ==
  \E k \in 1 .. MaxChunk :
    lcd.cycles + 4 * k = PpuStay(lcd.stat.mode) + lcd'.cycles

\* the mode transition of the step is one of the cycle OAM -> Draw ->
\* HBlank -> OAM or VBlank -> OAM, at the end of the mode's cycles
PpuModeCycle ==
  /\ PpuModeEnds
  /\ \/ /\ lcd.stat.mode = LCD_MODE_USING_OAM
        /\ lcd'.stat.mode = LCD_MODE_USING_OAM_VRAM
        /\ lcd'.LY = lcd.LY
     \/ /\ lcd.stat.mode = LCD_MODE_USING_OAM_VRAM
        /\ lcd'.stat.mode = LCD_MODE_HBLANK
        /\ lcd'.LY = lcd.LY
     \/ /\ lcd.stat.mode = LCD_MODE_HBLANK
        /\ lcd.LY < 143
        /\ lcd'.stat.mode = LCD_MODE_USING_OAM
        /\ lcd'.LY = lcd.LY + 1
     \/ /\ lcd.stat.mode = LCD_MODE_HBLANK
        /\ lcd.LY = 143
        /\ lcd'.stat.mode = LCD_MODE_VBLANK
        /\ lcd'.LY = 144
     \/ /\ lcd.stat.mode = LCD_MODE_VBLANK
        /\ lcd.LY = 153
        /\ lcd'.stat.mode = LCD_MODE_USING_OAM
        /\ lcd'.LY = 0

\* LY changes in the step at the end of HBlank or of a line of VBlank
PpuLineEnds ==
  /\ PpuModeEnds
  /\ \/ lcd.stat.mode = LCD_MODE_HBLANK /\ lcd'.LY = lcd.LY + 1
     \/ /\ lcd.stat.mode = LCD_MODE_VBLANK
        /\ lcd.LY \in 144 .. 153
        /\ lcd'.LY = (lcd.LY + 1) % 154

\* C30: with the LCD enabled the mode only changes along OAM (80 cycles)
\* -> Draw (172) -> HBlank (204) -> OAM of the next line while the
\* finished line is below 143, HBlank of line 143 -> VBlank (ten lines of
\* 456 cycles, LY 144..153) -> OAM with LY wrapped to 0; LY only changes
\* at the end of HBlank, at the end of each line of VBlank, or when the
\* LCD is switched on or off.  A mode is left as soon as its cycles are
\* complete.
C30_ModeCycle ==
  [][/\ (lcd.lcdc.display /\ lcd'.lcdc.display
           /\ lcd'.stat.mode # lcd.stat.mode) => PpuModeCycle
     /\ (lcd.lcdc.display /\ lcd'.lcdc.display)
          => lcd'.cycles < PpuStay(lcd'.stat.mode)
     /\ (lcd'.LY # lcd.LY) =>
          \/ lcd'.lcdc.display # lcd.lcdc.display
          \/ lcd.lcdc.display /\ PpuLineEnds]_vars

\* the display was switched on by an LCDC write, the PPU has gone through
\* every line since and has just left VBlank for OAM with LY wrapped to 0
C30_Witness ==
  /\ obs.switched /\ lcd.lcdc.display
  /\ lcd.frame >= 1
  /\ lcd.LY = 0
  /\ lcd.stat.mode = LCD_MODE_USING_OAM
  /\ lcd.cycles < 4 * MaxChunk

\* the PPU enters the mode m in the step
StatEnters(m) == lcd.stat.mode # m /\ lcd'.stat.mode = m

\* the sources of the LCDStat interrupt that occur in the step: a mode
\* entry whose enable bit is set, or a line change to LY = LYC with the
\* Y-compare enable bit set
StatSource ==
  \/ StatEnters(LCD_MODE_HBLANK) /\ lcd.stat.hblank_intr
  \/ StatEnters(LCD_MODE_VBLANK) /\ lcd.stat.vblank_intr
  \/ StatEnters(LCD_MODE_USING_OAM) /\ lcd.stat.using_oam_intr
  \/ lcd'.LY # lcd.LY /\ lcd'.LY = lcd.LYC /\ lcd.stat.y_compare_intr

\* the IF bits the PPU owes for the step (none with the display off)
StatOwed ==
  IF ~lcd.lcdc.display THEN 0
  ELSE (IF StatEnters(LCD_MODE_VBLANK) THEN INTERRUPT_VBLANK_MASK ELSE 0)
       + (IF StatSource THEN INTERRUPT_LCD_STAT_MASK ELSE 0)

\* C31: each time update_lcd_cycles advances the PPU, IF gains exactly the
\* bits owed: bit 0 when VBlank is entered; bit 1 when HBlank, VBlank or
\* OAM is entered with its STAT enable bit set or when LY changes to LYC
\* with the Y-compare enable bit set; no bit otherwise, and none at all
\* with the display off.
C31_PpuInterrupts ==
  [][(lcd' # lcd) => interrupts'.IF = BitOr(interrupts.IF, StatOwed)]_vars

\* IF was acknowledged, only the HBlank source is enabled, and the chunk
\* just charged entered VBlank: bit 0 is set and bit 1 is not
C31_Witness ==
  /\ lcd.lcdc.display
  /\ obs.before = 0
  /\ lcd.stat.hblank_intr /\ ~lcd.stat.vblank_intr
  /\ lcd.stat.mode = LCD_MODE_VBLANK /\ lcd.LY = SCREEN_HEIGHT
  /\ lcd.cycles < 4 * MaxChunk
  /\ interrupts.IF = INTERRUPT_VBLANK_MASK

\* the bit of div_counter the clock select picks: 9, 3, 5, 7
TacBit(sel) == << 9, 3, 5, 7 >>[sel + 1]

\* the timer signal: the selected bit of div_counter AND timer_enabled
TacSignal(t) ==
  t.on /\ (t.div_counter \div (2 ^ TacBit(t.clock_select))) % 2 = 1

\* C32: TIMA is incremented in a step exactly when the signal falls from 1
\* to 0 in it, whether by counting, by a write to DIV or by a write to TAC.
C32_FallingEdge ==
  [][timer'.TIMA = IF TacSignal(timer) /\ ~TacSignal(timer')
                     THEN U8(timer.TIMA + 1)
                     ELSE timer.TIMA]_vars

\* the cartridge of the run has the controller mbc
MbcIs(mbc) == drv.pc = "mbc" /\ s_mbc_type(drv.type) = mbc

\* x with 0 promoted to 1
MbcPromoted(x) == IF x = 0 THEN 1 ELSE x

\* the byte the CPU reads at 0x4000: the first byte of the bank mapped at
\* 0x4000-0x7FFF
MbcMapped == read_u8(Emu, 16384)

\* C33: after any sequence of writes to an MBC1, in ROM mode the ROM bank
\* is (upper field << 5) | low 5 bits and the external-RAM bank is 0, in
\* RAM mode the external-RAM bank is the upper field and the ROM bank the
\* low 5 bits; the low 5 bits are never 0 (0 becomes 1), and none of the
\* banks 0x00, 0x20, 0x40, 0x60 is mapped at 0x4000-0x7FFF.
C33_Mbc1Banks ==
  MbcIs("MBC1") =>
    LET lo == MbcPromoted(obs.lo % 32)
        upper == obs.hi % 4
    IN /\ (obs.mode % 2 = 0) =>
            /\ memory_map.rom_bank = upper * 32 + lo
            /\ memory_map.ext_ram_bank = 0
       /\ (obs.mode % 2 = 1) =>
            /\ memory_map.rom_bank = lo
            /\ memory_map.ext_ram_bank = upper
       /\ memory_map.rom_bank % 32 # 0
       /\ MbcMapped \notin {MbcMark(0), MbcMark(32), MbcMark(64), MbcMark(96)}
       /\ MbcMapped = MbcMark(memory_map.rom_bank)

\* 0x60 was written to 0x2000-0x3FFF and 0x7F to 0x4000-0x5FFF of an MBC1
\* in ROM mode: bank 0x61 is mapped
C33_Witness ==
  /\ MbcIs("MBC1") /\ obs.written
  /\ obs.lo = 96 /\ obs.hi = 127 /\ obs.mode % 2 = 0
  /\ memory_map.rom_bank = 97
  /\ MbcMapped = MbcMark(97)

\* C34: on an MBC3 the ROM bank is the value last written to 0x2000-0x3FFF
\* & 0x7F with 0 promoted to 1 (1 before any write), so that bank 0 is
\* never mapped at 0x4000-0x7FFF, and the external-RAM bank is the value
\* last written to 0x4000-0x5FFF & 7.
C34_Mbc3Banks ==
  MbcIs("MBC3") =>
    /\ memory_map.rom_bank = MbcPromoted(obs.lo % 128)
    /\ MbcMapped # MbcMark(0)
    /\ memory_map.ext_ram_bank = obs.hi % 8

\* the Y and X bytes of object n as the program wrote them to OAM
ObjOamY(n) == ObjBytes(drv.scene, n)[1]
ObjOamX(n) == ObjBytes(drv.scene, n)[2]

\* the vertical range of object n (8 lines from OAM Y - 16) contains line y
ObjOnLine(n, y) == (y + OBJ_Y_OFFSET) - ObjOamY(n) \in 0 .. 7

\* the objects of line y: the first 10 in OAM order that are on the line
ObjChosen(y) ==
  { n \in 0 .. (drv.scene.count - 1) :
      /\ ObjOnLine(n, y)
      /\ Cardinality({ m \in 0 .. (n - 1) : ObjOnLine(m, y) })
           < OBJ_PER_LINE_COUNT }

\* object n has a pixel at the screen column sx (all its pixels are opaque)
ObjCovers(n, sx) == (sx + OBJ_X_OFFSET) - ObjOamX(n) \in 0 .. 7

\* object n goes before object m: smaller OAM X, then lower OAM index
ObjBefore(n, m) ==
  \/ ObjOamX(n) < ObjOamX(m)
  \/ ObjOamX(n) = ObjOamX(m) /\ n <= m

\* the colour that the claim gives the column sx of line y
ObjExpected(y, sx) ==
  LET over == { n \in ObjChosen(y) : ObjCovers(n, sx) } IN
  IF over = {} THEN RGBA_WHITE
  ELSE LET top == CHOOSE n \in over : \A m \in over : ObjBefore(n, m)
       IN s_color_to_rgba(ObjBytes(drv.scene, top)[3])

\* C35: on a rendered line the sprites drawn are the first 10 in OAM order
\* whose vertical range contains the line, and where their opaque pixels
\* overlap the sprite with the smaller OAM X shows (whatever X is, the
\* range 1..7 included), the lower OAM index for equal X.
C35_SpritePriority ==
  (drv.pc = "obj" /\ obs.rendered # NoRender) =>
    \A sx \in 0 .. (SCREEN_WIDTH - 1) :
      obs.rendered.line_data[sx] = ObjExpected(obs.rendered.line_y, sx)

\* bit k of x
NoiseBit(x, k) == (x \div (2 ^ k)) % 2

\* the LFSR after a tick as the claim has it: shifted right by one, bit 14
\* set to the feedback bit, and in the 7-bit mode bit 6 set to it as well
NoiseNext(lfsr, width) ==
  LET bit == (NoiseBit(lfsr, 0) + NoiseBit(lfsr, 1)) % 2
      s == lfsr \div 2
      s14 == s - NoiseBit(s, 14) * 16384 + bit * 16384
  IN IF width = LFSR_WIDTH_7
       THEN s14 - NoiseBit(s14, 6) * 64 + bit * 64
       ELSE s14

\* C36: a step in which the LFSR changes takes it to the value above, below
\* 2^15, and leaves the sample ~lfsr & 1 of the new value; the LFSR is
\* below 2^15 throughout.
C36_LfsrTick ==
  [][/\ sound'.noise.lfsr < 32768
     /\ (sound'.noise.lfsr # sound.noise.lfsr) =>
          /\ sound'.noise.lfsr
               = NoiseNext(sound.noise.lfsr, sound.noise.lfsr_width)
          /\ sound'.noise.sample = 1 - (sound'.noise.lfsr % 2)]_vars

\* the largest cost of an opcode in s_opcode_cycles
MaxOpcodeCycles ==
  CHOOSE c \in {s_opcode_cycles[i] : i \in 1..Len(s_opcode_cycles)} :
    \A i \in 1..Len(s_opcode_cycles) : s_opcode_cycles[i] <= c

\* buffer->end - buffer->data when the caller requests the capacity less
\* the extra samples
BufferCapacity == RequestedSamples + SOUND_BUFFER_EXTRA_CHANNEL_SAMPLES

\* C37: the write position never passes the end of the buffer: a step adds
\* two samples for each of its APU ticks, and what lies past the request is
\* less than the samples of two steps, which is within the extra samples.
C37_BufferBound ==
  /\ sound.position <= BufferCapacity
  /\ sound.position < RequestedSamples + 2 * MaxOpcodeCycles
  /\ 2 * MaxOpcodeCycles <= SOUND_BUFFER_EXTRA_CHANNEL_SAMPLES
  /\ obs.last.valid =>
       obs.last.post.samples - obs.last.pre.samples
         = 2 * (U32(obs.last.post.cycles - obs.last.pre.cycles)
                  \div APU_CYCLES)

\* a call has returned SoundBufferFull with the position past the request
C37_Witness ==
  /\ drv.pc = "call"
  /\ drv.returned
  /\ BitAnd(drv.event, EMULATOR_EVENT_SOUND_BUFFER_FULL) # 0
  /\ sound.position > RequestedSamples + 2

\* bit c of NR52 as the CPU reads it
ChanStatusBit(c) ==
  BitAnd(read_u8(Emu, APU_START_ADDR + APU_NR52_ADDR), 2 ^ c) # 0

ChanMaxLength(c) ==
  IF c = CHANNEL3 THEN NR31_MAX_LENGTH ELSE NRX1_MAX_LENGTH

\* C38: a channel whose NR52 status bit is set has power and an enabled
\* DAC, and its length counter is in 1..64, or 1..256 for channel 3.
C38_StatusImplies ==
  \A c \in 0 .. (CHANNEL_COUNT - 1) :
    ChanStatusBit(c) =>
      /\ sound.enabled
      /\ sound.channel[c].dac_enabled
      /\ sound.channel[c].length > 0
      /\ sound.channel[c].length <= ChanMaxLength(c)

\* the step of the frame sequencer has run a length counter down and
\* stopped its channel while another channel still plays
C38_Witness ==
  /\ drv.pc = "chan"
  /\ obs.elapsed >= 8
  /\ obs.writes > 0
  /\ \E c \in 0 .. (CHANNEL_COUNT - 1) :
       /\ ~ChanStatusBit(c)
       /\ sound.channel[c].length = 0
       /\ sound.channel[c].dac_enabled
  /\ \E c \in 0 .. (CHANNEL_COUNT - 1) : ChanStatusBit(c)

\* handle_interrupts changed IF, SP or PC in the step of record r
Dispatched(r) ==
  \/ InLog(r, "dispatch")
  \/ r.post.IF # r.mid.IF
  \/ r.post.SP # r.mid.SP
  \/ r.post.PC # r.mid.PC

\* C39: a step whose handle_interrupts dispatches (an IF bit cleared, PC
\* pushed, PC at a vector) had IME = 1 after execute_instruction; a CPU
\* halted with IME = 0 is woken at most: IF, SP, PC and IME stay, and halt
\* is cleared when one of the five interrupts is enabled and pending.
C39_DispatchNeedsIme ==
  LET r == obs.last IN
  r.valid =>
    /\ Dispatched(r) => r.mid.IME
    /\ (r.mid.halt /\ ~r.mid.IME) =>
         /\ NoDispatch(r)
         /\ ~r.post.IME
         /\ r.post.halt = (Pending5(r.mid) = 0)

\* an interrupt has woken a CPU that was halted with IME = 0
C39_Witness ==
  LET r == obs.last IN
  /\ r.valid
  /\ r.mid.halt /\ ~r.mid.IME
  /\ r.pre.halt
  /\ Pending5(r.mid) # 0
  /\ ~r.post.halt

\* a frame boundary has happened that no returned mask has reported: the
\* edge is set, and the mask main is about to pass back does not hold it
FrameOwed ==
  /\ lcd.new_frame_edge
  /\ (drv.pc = "call") => BitAnd(drv.event, EMULATOR_EVENT_NEW_FRAME) = 0

\* C40: the frame boundaries of the PPU (lcd.frame counts them, display on
\* or off) are the calls that returned NewFrame plus the boundary still
\* owed, which is one at most; an iteration that begins with the edge set
\* puts NewFrame into the result and ends the loop.
C40_FramesReported ==
  /\ [](lcd.frame = obs.reported + B2N(FrameOwed))
  /\ [][(drv.pc = "loop" /\ drv.running /\ lcd.new_frame_edge) =>
          /\ BitAnd(drv'.result, EMULATOR_EVENT_NEW_FRAME) # 0
          /\ ~drv'.running]_vars

\* a call returned AudioBufferFull alone with the boundary in its last
\* step, and the next call has reported the frame
C40_Witness ==
  /\ drv.pc = "call"
  /\ obs.late
  /\ lcd.frame = 1
  /\ obs.reported = 1
  /\ BitAnd(drv.event, EMULATOR_EVENT_NEW_FRAME) # 0

=============================================================================
